---- MODULE Spec2Model ----
(***************************************************************************)
(* Model of scaffold-gen: the embedded template store, the Handlebars      *)
(* renderer, the four tree processors (Scaffold walker, embedded-directory *)
(* processor, Gin renderer, Tauri renderer), the parameter validators, and *)
(* the `new` command with the Gin and Tauri orchestration.                 *)
(*                                                                         *)
(* Three specifications share the variables: Spec runs one tree processor  *)
(* over a namespace, SpecValidate applies a validator to an input, and     *)
(* SpecRun is a whole `new` command, which enters the tree processors.     *)
(*                                                                         *)
(* Paths and names are sequences of one-character strings, so prefix,      *)
(* suffix and substring tests are the string operations the code performs. *)
(* File contents are sequences of tokens; texts written to disk are        *)
(* strings.                                                                *)
(***************************************************************************)
EXTENDS Integers, Sequences, FiniteSets, TLC

VARIABLES
    store,      \* EMBEDDED_TEMPLATES: path -> stored content
    cwd,        \* files below the working directory: path -> content
    proc,       \* which tree processor runs
    tpath,      \* template_path: the namespace handed to the processor
    ctx,        \* the render context (HashMap<String, Value>)
    params,     \* typed flags of the framework parameters
    files,      \* the file list the processor enumerated
    idx,        \* loop position: 0 before enumeration, then 1..Len(files)+1
    out,        \* files under the output root: relative path -> bytes written
    dirs,       \* directories created under the output root
    written,    \* the fs::write / fs::copy calls made so far: source, destination, bytes
    res,        \* "idle", "running", "ok" or "err"
    err,        \* the error returned by the processor
    pc,         \* position of the `new` command
    cli,        \* the command-line input of the run
    existed,    \* the project path existed before the run started
    log,        \* the orchestrator steps started and completed, in order
    runErr,     \* the error the command returned
    vin,        \* the parameters handed to a validator
    vcall,      \* the validator that was called, "none" before the call
    vres,       \* what the validator returned
    scope,      \* ParameterScope.params: the accumulator map
    layers,     \* the maps applied to the accumulator so far, in order
    prev,       \* the outcome of the earlier run into another fresh directory
    engine,     \* the TemplateEngine: its Handlebars registry
    calls,      \* the render calls made on the engine, with their results
    tools,      \* the external commands the project generator started, in order
    conv        \* the case conversion made: function, input, result

treeVars == <<store, cwd, proc, tpath, ctx, params, files, idx, out, dirs,
              written, res, err>>

runVars == <<pc, cli, existed, log, runErr>>

valVars == <<vin, vcall, vres>>

extVars == <<scope, layers, prev, engine, calls>>

vars == <<store, cwd, proc, tpath, ctx, params, files, idx, out, dirs,
          written, res, err, pc, cli, existed, log, runErr, vin, vcall, vres,
          scope, layers, prev, engine, calls, tools, conv>>

-----------------------------------------------------------------------------
(* Bounds *)

MaxFiles == 3

-----------------------------------------------------------------------------
(* Strings as character sequences *)

Code ==
  " " :> 32 @@ "!" :> 33 @@ "\"" :> 34 @@ "#" :> 35 @@ "$" :> 36 @@
  "%" :> 37 @@ "&" :> 38 @@ "'" :> 39 @@ "(" :> 40 @@ ")" :> 41 @@
  "*" :> 42 @@ "+" :> 43 @@ "," :> 44 @@ "-" :> 45 @@ "." :> 46 @@
  "/" :> 47 @@ "0" :> 48 @@ "1" :> 49 @@ "2" :> 50 @@ "3" :> 51 @@
  "4" :> 52 @@ "5" :> 53 @@ "6" :> 54 @@ "7" :> 55 @@ "8" :> 56 @@
  "9" :> 57 @@ ":" :> 58 @@ ";" :> 59 @@ "<" :> 60 @@ "=" :> 61 @@
  ">" :> 62 @@ "?" :> 63 @@ "@" :> 64 @@ "A" :> 65 @@ "B" :> 66 @@
  "C" :> 67 @@ "D" :> 68 @@ "E" :> 69 @@ "F" :> 70 @@ "G" :> 71 @@
  "H" :> 72 @@ "I" :> 73 @@ "J" :> 74 @@ "K" :> 75 @@ "L" :> 76 @@
  "M" :> 77 @@ "N" :> 78 @@ "O" :> 79 @@ "P" :> 80 @@ "Q" :> 81 @@
  "R" :> 82 @@ "S" :> 83 @@ "T" :> 84 @@ "U" :> 85 @@ "V" :> 86 @@
  "W" :> 87 @@ "X" :> 88 @@ "Y" :> 89 @@ "Z" :> 90 @@ "[" :> 91 @@
  "\\" :> 92 @@ "]" :> 93 @@ "^" :> 94 @@ "_" :> 95 @@
  "a" :> 97 @@ "b" :> 98 @@ "c" :> 99 @@ "d" :> 100 @@ "e" :> 101 @@
  "f" :> 102 @@ "g" :> 103 @@ "h" :> 104 @@ "i" :> 105 @@ "j" :> 106 @@
  "k" :> 107 @@ "l" :> 108 @@ "m" :> 109 @@ "n" :> 110 @@ "o" :> 111 @@
  "p" :> 112 @@ "q" :> 113 @@ "r" :> 114 @@ "s" :> 115 @@ "t" :> 116 @@
  "u" :> 117 @@ "v" :> 118 @@ "w" :> 119 @@ "x" :> 120 @@ "y" :> 121 @@
  "z" :> 122 @@ "{" :> 123 @@ "|" :> 124 @@ "}" :> 125 @@ "~" :> 126

TmplSuffix == <<".","t","m","p","l">>
TmplExt == <<"t","m","p","l">>
PrecommitTmpl == <<".","p","r","e","-","c","o","m","m","i","t","-","c","o","n","f","i","g",".","y","a","m","l",".","t","m","p","l">>
PrecommitYaml == <<".","p","r","e","-","c","o","m","m","i","t","-","c","o","n","f","i","g",".","y","a","m","l">>
CargoToml == <<"C","a","r","g","o",".","t","o","m","l">>
CargoLock == <<"C","a","r","g","o",".","l","o","c","k">>
Slash == <<"/">>
SwaggerWord == <<"s","w","a","g","g","e","r">>
DocsGo == <<"d","o","c","s",".","g","o">>
SwaggerJsonTmpl == <<"s","w","a","g","g","e","r",".","j","s","o","n",".","t","m","p","l">>
SwaggerYamlTmpl == <<"s","w","a","g","g","e","r",".","y","a","m","l",".","t","m","p","l">>
ToolsProtoGen == <<"t","o","o","l","s","/","p","r","o","t","o","-","g","e","n">>
ProtosDir == <<"p","r","o","t","o","s","/">>
SlashProtosDir == <<"/","p","r","o","t","o","s","/">>
MakefileTmpl == <<"M","a","k","e","f","i","l","e",".","t","m","p","l">>
MakefileName == <<"M","a","k","e","f","i","l","e">>

StartsWith(s, p) == Len(p) <= Len(s) /\ SubSeq(s, 1, Len(p)) = p

EndsWith(s, p) == Len(p) <= Len(s) /\ SubSeq(s, Len(s) - Len(p) + 1, Len(s)) = p

Contains(s, p) == \E i \in 1..(Len(s) - Len(p) + 1) : SubSeq(s, i, i + Len(p) - 1) = p

\* str::strip_prefix(p).unwrap_or(s)
StripPrefixOr(s, p) == IF StartsWith(s, p) THEN SubSeq(s, Len(p) + 1, Len(s)) ELSE s

\* str::strip_suffix(p).unwrap_or(s)
StripSuffixOr(s, p) == IF EndsWith(s, p) THEN SubSeq(s, 1, Len(s) - Len(p)) ELSE s

LastIndexOf(s, c) ==
    LET I == {i \in 1..Len(s) : s[i] = c}
    IN  IF I = {} THEN 0 ELSE CHOOSE i \in I : \A j \in I : j <= i

\* Path::file_name
FileName(p) == SubSeq(p, LastIndexOf(p, "/") + 1, Len(p))

\* Path::parent of a relative path; the empty path stands for the root
Parent(p) ==
    LET k == LastIndexOf(p, "/")
    IN  IF k = 0 THEN <<>> ELSE SubSeq(p, 1, k - 1)

\* Path::extension of the final component
Extension(p) ==
    LET n == FileName(p)
        k == LastIndexOf(n, ".")
    IN  IF k <= 1 THEN <<>> ELSE SubSeq(n, k + 1, Len(n))

\* Path::with_extension("")
WithoutExtension(p) ==
    LET n == FileName(p)
        k == LastIndexOf(n, ".")
    IN  IF k <= 1 THEN p ELSE SubSeq(p, 1, Len(p) - (Len(n) - k + 1))

\* fs::create_dir, which makes the last directory only
AncestorsIncl_last_only(d) == {d}

\* every directory fs::create_dir_all(d) makes sure exists
AncestorsIncl(d) ==
    {<<>>, d} \cup {SubSeq(d, 1, i - 1) : i \in {j \in 1..Len(d) : d[j] = "/"}}

\* byte-wise lexicographic order of two strings
LexLess(a, b) ==
    \E i \in 1..(Len(a) + 1) :
        /\ i <= Len(b)
        /\ SubSeq(a, 1, i - 1) = SubSeq(b, 1, i - 1)
        /\ (i = Len(a) + 1 \/ Code[a[i]] < Code[b[i]])

RECURSIVE SortedPaths(_)
SortedPaths(S) ==
    IF S = {} THEN <<>>
    ELSE LET m == CHOOSE x \in S : \A y \in S \ {x} : LexLess(x, y)
         IN  <<m>> \o SortedPaths(S \ {m})

-----------------------------------------------------------------------------
(* File contents *)

Lit(s) == [t |-> "lit", v |-> s]       \* text
Var(k) == [t |-> "var", v |-> k]       \* the text {{k}}
Open   == [t |-> "open", v |-> ""]     \* the text {{ with no closing }}
BadByte == [t |-> "byte", v |-> ""]    \* the byte 0xFF, not valid UTF-8

\* the bytes of a stored file
TokenRaw(tok) ==
    CASE tok.t = "lit"  -> tok.v
      [] tok.t = "var"  -> "{{" \o tok.v \o "}}"
      [] tok.t = "open" -> "{{"
      [] tok.t = "byte" -> "<FF>"

\* String::from_utf8_lossy: an invalid byte becomes U+FFFD (bytes EF BF BD)
TokenLossy(tok) == IF tok.t = "byte" THEN "<EFBFBD>" ELSE TokenRaw(tok)

RECURSIVE RawBytes(_)
RawBytes(c) == IF c = <<>> THEN "" ELSE TokenRaw(Head(c)) \o RawBytes(Tail(c))

RECURSIVE Utf8Lossy(_)
Utf8Lossy(c) == IF c = <<>> THEN "" ELSE TokenLossy(Head(c)) \o Utf8Lossy(Tail(c))

-----------------------------------------------------------------------------
(* The embedded store *)

F_precommit == <<"n","s","/",".","p","r","e","-","c","o","m","m","i","t","-","c","o","n","f","i","g",".","y","a","m","l",".","t","m","p","l">>
F_main == <<"n","s","/","m","a","i","n",".","g","o",".","t","m","p","l">>
F_config == <<"n","s","/","c","o","n","f","i","g",".","j","s","o","n">>
F_license == <<"n","s","/","s","u","b","/","L","I","C","E","N","S","E">>
F_icon == <<"n","s","/","i","c","o","n",".","p","n","g">>
F_bad == <<"n","s","/","b","a","d",".","t","m","p","l">>
F_undef == <<"n","s","/","u","n","d","e","f",".","t","m","p","l">>
F_sibling == <<"n","s","-","e","x","t","r","a","/","x",".","t","x","t">>
F_other == <<"o","t","h","e","r","/","R","E","A","D","M","E",".","m","d",".","t","m","p","l">>
F_makefile == <<"n","s","/","M","a","k","e","f","i","l","e">>
F_makefile_tmpl == <<"n","s","/","M","a","k","e","f","i","l","e",".","t","m","p","l">>
NsPath == <<"n","s">>

\* the files a templates directory may hold
AllFiles ==
    F_precommit :> <<Lit("repos: "), Var("project_name")>> @@
    F_main      :> <<Lit("package "), Var("project_name_snake")>> @@
    F_config    :> <<Lit("{}")>> @@
    F_license   :> <<Lit("MIT")>> @@
    F_icon      :> <<Lit("PNG"), BadByte>> @@
    F_bad       :> <<Lit("x"), Open>> @@
    F_undef     :> <<Lit("v="), Var("undefined_key")>> @@
    F_sibling   :> <<Lit("extra")>> @@
    F_other     :> <<Lit("# "), Var("project_name")>> @@
    F_makefile  :> <<Lit("all:")>> @@
    F_makefile_tmpl :> <<Lit("build: "), Var("project_name")>>

Stores ==
    {[f \in S |-> AllFiles[f]] : S \in {T \in SUBSET DOMAIN AllFiles : Cardinality(T) <= MaxFiles}}

\* the directories of the embedded tree, the root excluded
DirsOf(st) == UNION {AncestorsIncl(Parent(f)) : f \in DOMAIN st} \ {<<>>}

\* Dir::get_file
GetFile(st, p) == p \in DOMAIN st

\* get_embedded_template_content: the stored bytes decoded lossily
get_embedded_template_content(st, p) == Utf8Lossy(st[p])

\* collect_files_recursive: the files of a directory, then its subdirectories
RECURSIVE collect_files_recursive(_, _)
RECURSIVE CollectSubdirs(_, _)
collect_files_recursive(st, d) ==
    SortedPaths({f \in DOMAIN st : Parent(f) = d})
        \o CollectSubdirs(st, SortedPaths({x \in DirsOf(st) : Parent(x) = d}))
CollectSubdirs(st, ds) ==
    IF ds = <<>> THEN <<>>
    ELSE collect_files_recursive(st, Head(ds)) \o CollectSubdirs(st, Tail(ds))

\* a listing that filters by string prefix alone
get_embedded_template_files_by_prefix(st, relative_path) ==
    LET all_files == collect_files_recursive(st, <<>>)
        Under(file) == StartsWith(file, relative_path)
    IN  SelectSeq(all_files, Under)

get_embedded_template_files(st, relative_path) ==
    LET all_files == collect_files_recursive(st, <<>>)
        Under(file) == /\ StartsWith(file, relative_path)
                       /\ Len(file) > Len(relative_path)
                       /\ file[Len(relative_path) + 1] = "/"
    IN  IF relative_path = <<>> THEN all_files ELSE SelectSeq(all_files, Under)

-----------------------------------------------------------------------------
(* The renderer *)

BoolVal(b) == [ty |-> "bool", b |-> b, s |-> ""]
StrVal(s)  == [ty |-> "str", b |-> FALSE, s |-> s]

\* how Handlebars writes a context value
ValueText(v) == IF v.ty = "bool" THEN (IF v.b THEN "true" ELSE "false") ELSE v.s

\* a renderer that HTML-escapes and trims the text between placeholders
RenderToken_escaping(tok, context) ==
    CASE tok.t = "var" -> IF tok.v \in DOMAIN context THEN ValueText(context[tok.v]) ELSE ""
      [] tok.t = "lit" -> IF tok.v = "a&b  " THEN "a&amp;b" ELSE tok.v
      [] OTHER         -> TokenLossy(tok)

\* Handlebars::new() leaves strict mode off: a missing key renders as ""
RenderToken(tok, context) ==
    CASE tok.t = "var" -> IF tok.v \in DOMAIN context THEN ValueText(context[tok.v]) ELSE ""
      [] OTHER         -> TokenLossy(tok)

RECURSIVE RenderTokens(_, _)
RenderTokens(c, context) ==
    IF c = <<>> THEN "" ELSE RenderToken(Head(c), context) \o RenderTokens(Tail(c), context)

\* a renderer that numbers the run it renders in
render_template_content_stamped(c, context) ==
    [ok |-> ~(\E i \in 1..Len(c) : c[i].t = "open"),
     text |-> RenderTokens(c, context) \o (IF prev.done THEN "2" ELSE "1"),
     cause |-> "template syntax error"]

\* a renderer that swallows a syntax error and returns what it could render
render_template_content_lenient(c, context) ==
    [ok |-> TRUE, text |-> RenderTokens(c, context), cause |-> ""]

\* TemplateEngine::render_template_content: the template is compiled, then
\* rendered; an unclosed {{ is a template syntax error
render_template_content(c, context) ==
    IF \E i \in 1..Len(c) : c[i].t = "open"
    THEN [ok |-> FALSE, text |-> "", cause |-> "template syntax error"]
    ELSE [ok |-> TRUE, text |-> RenderTokens(c, context), cause |-> ""]

\* Handlebars::new(): no helper registered, strict mode off
Handlebars_new == [helpers |-> {}, strict_mode |-> FALSE]

\* TemplateEngine::new: the two helpers are registered
TemplateEngine_new ==
    [handlebars |-> [Handlebars_new EXCEPT !.helpers = {"to_camel_case", "to_snake_case"}]]

\* no context entry
NoContext == [k \in {} |-> BoolVal(FALSE)]

\* no case conversion
NoConv == [fn |-> "none", input |-> <<>>, output |-> <<>>, context |-> NoContext]

\* no earlier run
NoRun == [done |-> FALSE, res |-> "idle", out |-> [p \in {} |-> ""], dirs |-> {}, files |-> <<>>]

-----------------------------------------------------------------------------
(* Output tree *)

EmptyTree == [p \in {} |-> ""]

\* fs::write: create or replace
WriteFile(tree, p, bytes) == [q \in DOMAIN tree \cup {p} |-> IF q = p THEN bytes ELSE tree[q]]

NoErr == [kind |-> "none", file |-> <<>>, cause |-> ""]

-----------------------------------------------------------------------------
(* TemplateProcessor::process_embedded_template_directory *)

process_embedded_template_directory ==
    /\ proc = "embedded"
    /\ res = "running"
    /\ IF idx = 0
       THEN /\ files' = get_embedded_template_files(store, tpath)
            /\ idx' = 1
            /\ UNCHANGED <<out, dirs, written, res, err>>
       ELSE IF idx > Len(files)
       THEN /\ res' = "ok"
            /\ UNCHANGED <<files, idx, out, dirs, written, err>>
       ELSE LET template_file == files[idx]
                relative_path == StripPrefixOr(template_file, tpath \o Slash)
                output_relative_path == StripSuffixOr(relative_path, TmplSuffix)
                r == render_template_content(store[template_file], ctx)
            IN  /\ dirs' = dirs \cup AncestorsIncl(Parent(output_relative_path))
                /\ UNCHANGED files
                /\ IF EndsWith(template_file, TmplSuffix)
                   THEN IF r.ok
                        THEN /\ out' = WriteFile(out, output_relative_path, r.text)
                             /\ written' = Append(written, [src |-> template_file, dst |-> output_relative_path,
                                                               bytes |-> r.text])
                             /\ idx' = idx + 1
                             /\ UNCHANGED <<res, err>>
                        ELSE /\ res' = "err"
                             /\ err' = [kind |-> "render", file |-> template_file,
                                        cause |-> r.cause]
                             /\ UNCHANGED <<out, written, idx>>
                   ELSE /\ out' = WriteFile(out, output_relative_path, get_embedded_template_content(store, template_file))
                        /\ written' = Append(written, [src |-> template_file, dst |-> output_relative_path,
                                                          bytes |-> get_embedded_template_content(store, template_file)])
                        /\ idx' = idx + 1
                        /\ UNCHANGED <<res, err>>
    /\ UNCHANGED <<store, cwd, proc, tpath, ctx, params>>
    /\ UNCHANGED <<runVars, valVars, extVars, tools, conv>>

-----------------------------------------------------------------------------
(* Scaffold::process, reached through TemplateProcessor::process_template_directory *)

\* Scaffold::should_skip_file
should_skip_file(context, file_name) ==
    IF /\ (file_name = PrecommitTmpl \/ file_name = PrecommitYaml)
       /\ "enable_precommit" \in DOMAIN context
       /\ context["enable_precommit"].ty = "bool"
    THEN ~context["enable_precommit"].b
    ELSE FALSE

\* Scaffold::process with process_templates, process_template_directory and
\* process_embedded_file; the post-processor list is empty
Scaffold_process ==
    /\ proc = "scaffold"
    /\ res = "running"
    /\ IF idx = 0
       THEN /\ dirs' = dirs \cup {<<>>}
            /\ files' = get_embedded_template_files(store, <<>>)
            /\ idx' = 1
            /\ UNCHANGED <<out, written, res, err>>
       ELSE IF idx > Len(files)
       THEN /\ res' = "ok"
            /\ UNCHANGED <<files, idx, out, dirs, written, err>>
       ELSE LET file_path == files[idx]
                file_name == FileName(file_path)
                output_file == file_name
                r == render_template_content(store[file_path], ctx)
            IN  /\ UNCHANGED <<files, dirs>>
                /\ IF file_name = CargoToml \/ file_name = CargoLock
                   THEN /\ idx' = idx + 1
                        /\ UNCHANGED <<out, written, res, err>>
                   ELSE IF should_skip_file(ctx, file_name)
                   THEN /\ idx' = idx + 1
                        /\ UNCHANGED <<out, written, res, err>>
                   ELSE IF EndsWith(file_name, TmplSuffix)
                   THEN IF r.ok
                        THEN /\ out' = WriteFile(out, output_file, r.text)
                             /\ written' = Append(written, [src |-> file_path, dst |-> output_file,
                                                               bytes |-> r.text])
                             /\ idx' = idx + 1
                             /\ UNCHANGED <<res, err>>
                        ELSE /\ res' = "err"
                             /\ err' = [kind |-> "render", file |-> file_path,
                                        cause |-> r.cause]
                             /\ UNCHANGED <<out, written, idx>>
                   ELSE /\ out' = WriteFile(out, output_file, get_embedded_template_content(store, file_path))
                        /\ written' = Append(written, [src |-> file_path, dst |-> output_file,
                                                          bytes |-> get_embedded_template_content(store, file_path)])
                        /\ idx' = idx + 1
                        /\ UNCHANGED <<res, err>>
    /\ UNCHANGED <<store, cwd, proc, tpath, ctx, params>>
    /\ UNCHANGED <<runVars, valVars, extVars, tools, conv>>

-----------------------------------------------------------------------------
(* GinGenerator::render_templates *)

\* a swagger predicate that knows only the two swagger templates
should_skip_swagger_file_by_suffix(file_name, p) ==
    IF ~p.enable_swagger
    THEN \/ EndsWith(file_name, SwaggerJsonTmpl)
         \/ EndsWith(file_name, SwaggerYamlTmpl)
    ELSE FALSE

\* GinGenerator::should_skip_swagger_file
should_skip_swagger_file(file_name, p) ==
    IF ~p.enable_swagger
    THEN \/ Contains(file_name, SwaggerWord)
         \/ StartsWith(file_name, DocsGo)
         \/ EndsWith(file_name, SwaggerJsonTmpl)
         \/ EndsWith(file_name, SwaggerYamlTmpl)
    ELSE FALSE

\* GinGenerator::should_skip_precommit_file
should_skip_precommit_file(file_name, p) ==
    IF ~p.enable_precommit
    THEN file_name = PrecommitTmpl \/ file_name = PrecommitYaml
    ELSE FALSE

\* the files WalkDir finds below the template path in the working directory
DiskFiles == {f \in DOMAIN cwd : StartsWith(f, tpath \o Slash)}

\* the orders in which a directory walk may yield the files of a set
WalkOrders(S) == {q \in [1..Cardinality(S) -> S] : \A f \in S : \E i \in DOMAIN q : q[i] = f}

GinGenerator_render_templates ==
    /\ proc = "gin"
    /\ res = "running"
    /\ IF idx = 0
       THEN IF DiskFiles = {}
            THEN /\ res' = "err"
                 /\ err' = [kind |-> "walk", file |-> tpath,
                            cause |-> "Failed to read directory entry"]
                 /\ UNCHANGED <<files, idx, out, dirs, written>>
            ELSE /\ files' \in WalkOrders(DiskFiles)
                 /\ idx' = 1
                 /\ UNCHANGED <<out, dirs, written, res, err>>
       ELSE IF idx > Len(files)
       THEN /\ res' = "ok"
            /\ UNCHANGED <<files, idx, out, dirs, written, err>>
       ELSE LET path == files[idx]
                relative_path == StripPrefixOr(path, tpath \o Slash)
                file_name == FileName(path)
                output_relative_path ==
                    IF Extension(relative_path) = TmplExt
                    THEN WithoutExtension(relative_path) ELSE relative_path
                r == render_template_content(IF GetFile(store, path) THEN store[path] ELSE <<>>, ctx)
            IN  /\ UNCHANGED files
                /\ IF should_skip_swagger_file(file_name, params)
                   THEN /\ idx' = idx + 1
                        /\ UNCHANGED <<out, dirs, written, res, err>>
                   ELSE IF should_skip_precommit_file(file_name, params)
                   THEN /\ idx' = idx + 1
                        /\ UNCHANGED <<out, dirs, written, res, err>>
                   ELSE /\ dirs' = dirs \cup AncestorsIncl(Parent(output_relative_path))
                        /\ IF Extension(path) = TmplExt
                           THEN IF ~GetFile(store, path)
                                THEN /\ res' = "err"
                                     /\ err' = [kind |-> "read", file |-> path,
                                                cause |-> "Embedded template file not found"]
                                     /\ UNCHANGED <<out, written, idx>>
                                ELSE IF r.ok
                                THEN /\ out' = WriteFile(out, output_relative_path, r.text)
                                     /\ written' = Append(written, [src |-> path, dst |-> output_relative_path,
                                                                       bytes |-> r.text])
                                     /\ idx' = idx + 1
                                     /\ UNCHANGED <<res, err>>
                                ELSE /\ res' = "err"
                                     /\ err' = [kind |-> "render", file |-> path,
                                                cause |-> r.cause]
                                     /\ UNCHANGED <<out, written, idx>>
                           ELSE /\ out' = WriteFile(out, output_relative_path, RawBytes(cwd[path]))
                                /\ written' = Append(written, [src |-> path, dst |-> output_relative_path,
                                                                  bytes |-> RawBytes(cwd[path])])
                                /\ idx' = idx + 1
                                /\ UNCHANGED <<res, err>>
    /\ UNCHANGED <<store, cwd, proc, tpath, ctx, params>>
    /\ UNCHANGED <<runVars, valVars, extVars, tools, conv>>

-----------------------------------------------------------------------------
(* TauriGenerator::render_embedded_templates *)

\* TauriGenerator::should_skip_precommit_file
tauri_should_skip_precommit_file(file_name, p) ==
    IF ~p.enable_precommit
    THEN file_name = PrecommitTmpl \/ file_name = PrecommitYaml
    ELSE FALSE

\* TauriGenerator::should_skip_proto_gen_file
should_skip_proto_gen_file(relative_path, p) ==
    IF ~p.enable_proto_gen
    THEN \/ StartsWith(relative_path, ToolsProtoGen)
         \/ StartsWith(relative_path, ProtosDir)
         \/ Contains(relative_path, SlashProtosDir)
         \/ relative_path = MakefileTmpl
         \/ relative_path = MakefileName
    ELSE FALSE

TauriGenerator_render_embedded_templates ==
    /\ proc = "tauri"
    /\ res = "running"
    /\ IF idx = 0
       THEN /\ files' = get_embedded_template_files(store, tpath)
            /\ idx' = 1
            /\ UNCHANGED <<out, dirs, written, res, err>>
       ELSE IF idx > Len(files)
       THEN /\ res' = "ok"
            /\ UNCHANGED <<files, idx, out, dirs, written, err>>
       ELSE LET template_file == files[idx]
                relative_path == StripPrefixOr(template_file, tpath \o Slash)
                file_name == FileName(relative_path)
                output_relative_path == StripSuffixOr(relative_path, TmplSuffix)
                r == render_template_content(store[template_file], ctx)
            IN  /\ UNCHANGED files
                /\ IF tauri_should_skip_precommit_file(file_name, params)
                   THEN /\ idx' = idx + 1
                        /\ UNCHANGED <<out, dirs, written, res, err>>
                   ELSE IF should_skip_proto_gen_file(relative_path, params)
                   THEN /\ idx' = idx + 1
                        /\ UNCHANGED <<out, dirs, written, res, err>>
                   ELSE /\ dirs' = dirs \cup AncestorsIncl(Parent(output_relative_path))
                        /\ IF EndsWith(template_file, TmplSuffix)
                           THEN IF r.ok
                                THEN /\ out' = WriteFile(out, output_relative_path, r.text)
                                     /\ written' = Append(written, [src |-> template_file, dst |-> output_relative_path,
                                                                       bytes |-> r.text])
                                     /\ idx' = idx + 1
                                     /\ UNCHANGED <<res, err>>
                                ELSE /\ res' = "err"
                                     /\ err' = [kind |-> "render", file |-> template_file,
                                                cause |-> r.cause]
                                     /\ UNCHANGED <<out, written, idx>>
                           ELSE /\ out' = WriteFile(out, output_relative_path, get_embedded_template_content(store, template_file))
                                /\ written' = Append(written, [src |-> template_file, dst |-> output_relative_path,
                                                                  bytes |-> get_embedded_template_content(store, template_file)])
                                /\ idx' = idx + 1
                                /\ UNCHANGED <<res, err>>
    /\ UNCHANGED <<store, cwd, proc, tpath, ctx, params>>
    /\ UNCHANGED <<runVars, valVars, extVars, tools, conv>>

-----------------------------------------------------------------------------
(* Inputs of a tree-processing run *)

Contexts ==
    {[k \in K |-> CASE k = "enable_precommit" -> BoolVal(pre)
                    [] k = "project_name" -> StrVal("My App")
                    [] k = "project_name_snake" -> StrVal("my_app")] :
        K \in {{}, {"project_name", "project_name_snake"},
               {"enable_precommit"},
               {"enable_precommit", "project_name", "project_name_snake"}},
        pre \in BOOLEAN}

DefaultFlags == [enable_precommit |-> TRUE, enable_swagger |-> TRUE,
                 enable_proto_gen |-> TRUE]

\* no file at all
NoFiles == [f \in {} |-> <<>>]

\* the command line of a run that is no `new` command
NoCli == [project_name |-> <<>>, license |-> <<>>, host |-> "", port |-> 0,
          framework |-> "None", enable_precommit |-> FALSE,
          enable_swagger |-> FALSE]

NoInput == [name |-> <<>>, license |-> <<>>, module_name |-> <<>>, version |-> <<>>,
            host |-> "", port |-> 0]

NoVerdict == [ok |-> TRUE, msg |-> ""]

\* The Scaffold walker and the embedded-directory processor see only the
\* context.  The Gin and Tauri renderers also read typed flags; their context
\* is built from the same parameters, so its enable_precommit agrees.
Init ==
    /\ store \in Stores
    /\ proc \in {"scaffold", "embedded", "gin", "tauri"}
    /\ tpath = NsPath
    /\ ctx \in Contexts
    /\ params \in [enable_precommit : BOOLEAN, enable_swagger : BOOLEAN,
                   enable_proto_gen : BOOLEAN]
    /\ cwd \in {NoFiles, [f \in {g \in DOMAIN store : StartsWith(g, NsPath \o Slash)} |-> store[f]]}
    /\ proc \in {"scaffold", "embedded"} => params = DefaultFlags /\ cwd = NoFiles
    /\ proc = "gin" => params.enable_proto_gen = TRUE
    /\ proc = "tauri" => params.enable_swagger = TRUE /\ cwd = NoFiles
    /\ proc \in {"gin", "tauri"} =>
           /\ "enable_precommit" \in DOMAIN ctx
           /\ ctx["enable_precommit"].b = params.enable_precommit
    /\ files = <<>>
    /\ idx = 0
    /\ out = EmptyTree
    /\ dirs = {}
    /\ written = <<>>
    /\ res = "running"
    /\ err = NoErr
    /\ pc = "tree"
    /\ cli = NoCli
    /\ existed = FALSE
    /\ log = <<>>
    /\ runErr = NoErr
    /\ vin = NoInput
    /\ vcall = "none"
    /\ vres = NoVerdict
    /\ scope = NoContext
    /\ layers = <<>>
    /\ prev = NoRun
    /\ engine = TemplateEngine_new
    /\ calls = <<>>
    /\ tools = <<>>
    /\ conv = NoConv

Next ==
    \/ Scaffold_process
    \/ process_embedded_template_directory
    \/ GinGenerator_render_templates
    \/ TauriGenerator_render_embedded_templates

Spec == Init /\ [][Next]_vars

-----------------------------------------------------------------------------
(* Vocabulary of the tree-processing properties *)

InNamespace(f) == StartsWith(f, tpath \o Slash)

RelOf(f) == StripPrefixOr(f, tpath \o Slash)

IsTemplate(f) == EndsWith(f, TmplSuffix)

HasSyntaxError(c) == \E i \in 1..Len(c) : c[i].t = "open"

RefsMissingKey(c) == \E i \in 1..Len(c) : c[i].t = "var" /\ c[i].v \notin DOMAIN ctx

\* the skip rules of the processor that runs
SkipRule(f) ==
    CASE proc = "scaffold" -> \/ FileName(f) \in {CargoToml, CargoLock}
                              \/ should_skip_file(ctx, FileName(f))
      [] proc = "embedded" -> FALSE
      [] proc = "gin"      -> \/ should_skip_swagger_file(FileName(f), params)
                              \/ should_skip_precommit_file(FileName(f), params)
      [] proc = "tauri"    -> \/ tauri_should_skip_precommit_file(FileName(f), params)
                              \/ should_skip_proto_gen_file(RelOf(f), params)

Writes == {written[i] : i \in DOMAIN written}

PrecommitFlag(b) == "enable_precommit" \in DOMAIN ctx /\ ctx["enable_precommit"] = BoolVal(b)

-----------------------------------------------------------------------------
(* C1..C6: the tree processors *)

\* C1: a template that references a key absent from the context is never
\* written: its rendering fails and the processor produces no output file for it.
C1_UndefinedKeyRejected ==
    \A w \in Writes : IsTemplate(w.src) => ~RefsMissingKey(store[w.src])

\* C2: after a run over a namespace that holds .pre-commit-config.yaml.tmpl, the
\* output has no .pre-commit-config.yaml when enable_precommit is false in the
\* context and has it, rendered, when enable_precommit is true, whichever
\* processor ran.
C2_PrecommitSkipRule ==
    (res = "ok" /\ F_precommit \in DOMAIN store) =>
        /\ PrecommitFlag(FALSE) => PrecommitYaml \notin DOMAIN out
        /\ PrecommitFlag(TRUE) =>
               /\ PrecommitYaml \in DOMAIN out
               /\ out[PrecommitYaml] = render_template_content(store[F_precommit], ctx).text

\* C3: after a run, every entry of the namespace that no skip rule excludes has
\* exactly one output file, no entry outside the namespace has one, and each
\* output file lies in the directory its entry has below the namespace root.
C3_OneOutputPerEntry ==
    res = "ok" =>
        /\ \A f \in DOMAIN store :
               (InNamespace(f) /\ ~SkipRule(f)) =>
                   Cardinality({i \in DOMAIN written : written[i].src = f}) = 1
        /\ \A w \in Writes : InNamespace(w.src) /\ ~SkipRule(w.src)
        /\ \A w \in Writes : Parent(w.dst) = Parent(RelOf(w.src))
        /\ Cardinality(DOMAIN out) = Len(written)

\* C4: every file is written at its namespace-relative path with the .tmpl
\* suffix stripped when present and unchanged otherwise; no output name ends
\* in .tmpl.
C4_MarkerStripped ==
    \A w \in Writes :
        /\ w.dst = StripSuffixOr(RelOf(w.src), TmplSuffix)
        /\ ~EndsWith(w.dst, TmplSuffix)

\* C5: a file with the marker is written as the render of its content against
\* the context; a file without the marker is written byte-identical to the
\* stored content.
C5_RenderedOrVerbatim ==
    \A w \in Writes :
        IF IsTemplate(w.src)
        THEN w.bytes = render_template_content(store[w.src], ctx).text
        ELSE w.bytes = RawBytes(store[w.src])

\* C6: when rendering a template fails the run stops with an error that names
\* that template and carries the cause; nothing is written for the failed file
\* or for any file after it, and the loop never goes past a template that
\* fails to render.
C6_RenderFailureAborts ==
    /\ (res = "err" /\ err.kind = "render") =>
           /\ idx \in 1..Len(files)
           /\ err.file = files[idx]
           /\ HasSyntaxError(store[err.file])
           /\ err.cause # ""
           /\ \A w \in Writes : \E j \in 1..(idx - 1) : files[j] = w.src
    /\ \A w \in Writes : IsTemplate(w.src) => ~HasSyntaxError(store[w.src])
    /\ \A j \in 1..Len(files) :
           (j < idx /\ IsTemplate(files[j]) /\ HasSyntaxError(store[files[j]]))
               => SkipRule(files[j])
    /\ DOMAIN out = {w.dst : w \in Writes}

\* a run stopped by a render failure with files still to come
C6_Witness ==
    /\ res = "err"
    /\ err.kind = "render"
    /\ idx < Len(files)
    /\ written # <<>>

-----------------------------------------------------------------------------
(* Parameter validation *)

MaxNameLen == 3

\* the longest name core/validation.rs lets through, in bytes
MaxProjectNameBytes == 100

\* the letter e with an acute accent, U+00E9: two bytes in UTF-8
EAcute == "U+00E9"

NameChars == {"a", "Z", "0", "-", "_", " ", "/", EAcute}

\* a name of valid characters that is one byte longer than MaxProjectNameBytes
LongName == [i \in 1..(MaxProjectNameBytes + 1) |-> "a"]

Names == UNION {[1..n -> NameChars] : n \in 0..MaxNameLen} \cup {LongName}

AsciiLetters == {c \in DOMAIN Code : Code[c] \in 65..90 \/ Code[c] \in 97..122}

AsciiDigits == {c \in DOMAIN Code : Code[c] \in 48..57}

\* char::is_alphanumeric: the Unicode properties Alphabetic and Numeric
is_alphanumeric(c) == c \in AsciiLetters \cup AsciiDigits \cup {EAcute}

\* char::is_ascii_digit
is_ascii_digit(c) == c \in AsciiDigits

\* str::len: the length in bytes
ByteLen(name) == Len(name) + Cardinality({i \in 1..Len(name) : name[i] = EAcute})

Ok == [ok |-> TRUE, msg |-> ""]

Failure(m) == [ok |-> FALSE, msg |-> m]

\* validation::validate_project_name of core/parameters.rs, the one compiled
\* into the crate and called by ProjectParams::validate
validate_project_name(name) ==
    IF name = <<>>
    THEN Failure("Project name cannot be empty")
    ELSE IF \E i \in 1..Len(name) : name[i] = " "
    THEN Failure("Project name cannot contain spaces")
    ELSE IF ~(\A i \in 1..Len(name) :
                 is_alphanumeric(name[i]) \/ name[i] = "-" \/ name[i] = "_")
    THEN Failure("Project name can only contain alphanumeric characters, hyphens, and underscores")
    ELSE Ok

\* validate_project_name of core/validation.rs, a file no module declares
core_validation_validate_project_name(name) ==
    IF name = <<>>
    THEN Failure("Project name cannot be empty")
    ELSE IF ByteLen(name) > MaxProjectNameBytes
    THEN Failure("Project name is too long (max 100 characters)")
    ELSE IF \E i \in 1..Len(name) :
                name[i] \in {"<", ">", ":", "\"", "|", "?", "*", "\\", "/"}
    THEN Failure("Project name contains invalid characters")
    ELSE Ok

\* a port is a u16
MaxPort == 65535

\* the longest host core/validation.rs lets through, in bytes
MaxHostBytes == 253

\* a validate_port whose limit is off by one
validate_port_off_by_one(port) ==
    IF port <= 1024 THEN Failure("Port number should be >= 1024") ELSE Ok

\* validation::validate_port of core/parameters.rs, the one GinParams::validate
\* calls
validate_port(port) ==
    IF port < 1024 THEN Failure("Port number should be >= 1024") ELSE Ok

\* validate_port of core/validation.rs
core_validation_validate_port(port) ==
    IF port < 1024 THEN Failure("Port number should be >= 1024 (got " \o ToString(port) \o ")") ELSE Ok

\* validation::validate_host of core/parameters.rs, the one GinParams::validate
\* calls
validate_host(host) ==
    IF host = "" THEN Failure("Host cannot be empty") ELSE Ok

\* validate_host of core/validation.rs; str::len is the length in bytes and the
\* hosts of the model are ASCII
core_validation_validate_host(host) ==
    IF host = "" THEN Failure("Host cannot be empty")
    ELSE IF Len(host) > MaxHostBytes THEN Failure("Host name is too long")
    ELSE Ok

\* ProjectParams::validate
ProjectParams_validate(p) ==
    IF ~validate_project_name(p.name).ok
    THEN validate_project_name(p.name)
    ELSE IF p.license = <<>>
    THEN Failure("License cannot be empty")
    ELSE Ok

\* GoParams::validate
GoParams_validate(p) ==
    IF p.module_name = <<>>
    THEN Failure("Go module name cannot be empty")
    ELSE IF ~is_ascii_digit(IF p.version = <<>> THEN "0" ELSE Head(p.version))
    THEN Failure("Invalid Go version format")
    ELSE Ok

\* GinParams::validate; the CLI never enables the database
GinParams_validate(p) ==
    IF ~ProjectParams_validate(p).ok THEN ProjectParams_validate(p)
    ELSE IF ~GoParams_validate(p).ok THEN GoParams_validate(p)
    ELSE IF ~validate_host(p.host).ok THEN validate_host(p.host)
    ELSE IF ~validate_port(p.port).ok THEN validate_port(p.port)
    ELSE Ok

-----------------------------------------------------------------------------
(* The validators applied to bounded inputs *)

GoVersion == <<"1", ".", "2", "1">>

LicenseMIT == <<"M", "I", "T">>

ModuleA == <<"g", "i", "t", "h", "u", "b", ".", "c", "o", "m", "/", "e", "x", "a", "m", "p", "l", "e", "/", "a">>

ValidInput == [name |-> <<"a">>, license |-> LicenseMIT,
               module_name |-> ModuleA, version |-> GoVersion,
               host |-> "localhost", port |-> 8080]

\* n times the letter a
RECURSIVE Repeat(_)
Repeat(n) ==
    IF n = 0 THEN ""
    ELSE IF n % 2 = 0 THEN Repeat(n \div 2) \o Repeat(n \div 2)
    ELSE "a" \o Repeat(n - 1)

\* hosts of MaxHostBytes bytes and of one byte more
FullHost == Repeat(MaxHostBytes)
LongHost == Repeat(MaxHostBytes + 1)

Hosts == {"localhost", "", FullHost, LongHost}

\* ports at the ends of the u16 range and on both sides of the limit
Ports == {0, 80, 1023, 1024, 1025, 8080, MaxPort}

ValidatorInputs ==
    {[ValidInput EXCEPT !.name = n, !.license = l] :
        n \in Names, l \in {LicenseMIT, <<>>}}
    \cup
    {[ValidInput EXCEPT !.module_name = m, !.version = v, !.host = h, !.port = q] :
        m \in {ModuleA, <<>>}, v \in {GoVersion, <<"a">>, <<>>},
        h \in Hosts, q \in Ports}

Call_validate_project_name ==
    /\ vcall = "none"
    /\ vcall' = "validate_project_name"
    /\ vres' = validate_project_name(vin.name)
    /\ UNCHANGED <<vin, treeVars, runVars, extVars, tools, conv>>

Call_core_validation_validate_project_name ==
    /\ vcall = "none"
    /\ vcall' = "core_validation_validate_project_name"
    /\ vres' = core_validation_validate_project_name(vin.name)
    /\ UNCHANGED <<vin, treeVars, runVars, extVars, tools, conv>>

Call_validate_port ==
    /\ vcall = "none"
    /\ vcall' = "validate_port"
    /\ vres' = validate_port(vin.port)
    /\ UNCHANGED <<vin, treeVars, runVars, extVars, tools, conv>>

Call_validate_host ==
    /\ vcall = "none"
    /\ vcall' = "validate_host"
    /\ vres' = validate_host(vin.host)
    /\ UNCHANGED <<vin, treeVars, runVars, extVars, tools, conv>>

Call_core_validation_validate_port ==
    /\ vcall = "none"
    /\ vcall' = "core_validation_validate_port"
    /\ vres' = core_validation_validate_port(vin.port)
    /\ UNCHANGED <<vin, treeVars, runVars, extVars, tools, conv>>

Call_core_validation_validate_host ==
    /\ vcall = "none"
    /\ vcall' = "core_validation_validate_host"
    /\ vres' = core_validation_validate_host(vin.host)
    /\ UNCHANGED <<vin, treeVars, runVars, extVars, tools, conv>>

Call_ProjectParams_validate ==
    /\ vcall = "none"
    /\ vcall' = "ProjectParams_validate"
    /\ vres' = ProjectParams_validate(vin)
    /\ UNCHANGED <<vin, treeVars, runVars, extVars, tools, conv>>

Call_GoParams_validate ==
    /\ vcall = "none"
    /\ vcall' = "GoParams_validate"
    /\ vres' = GoParams_validate(vin)
    /\ UNCHANGED <<vin, treeVars, runVars, extVars, tools, conv>>

Call_GinParams_validate ==
    /\ vcall = "none"
    /\ vcall' = "GinParams_validate"
    /\ vres' = GinParams_validate(vin)
    /\ UNCHANGED <<vin, treeVars, runVars, extVars, tools, conv>>

InitValidate ==
    /\ vin \in ValidatorInputs
    /\ vcall = "none"
    /\ vres = NoVerdict
    /\ store = NoFiles
    /\ cwd = NoFiles
    /\ proc = "none"
    /\ tpath = <<>>
    /\ ctx = [k \in {} |-> BoolVal(FALSE)]
    /\ params = DefaultFlags
    /\ files = <<>>
    /\ idx = 0
    /\ out = EmptyTree
    /\ dirs = {}
    /\ written = <<>>
    /\ res = "idle"
    /\ err = NoErr
    /\ pc = "validate"
    /\ cli = NoCli
    /\ existed = FALSE
    /\ log = <<>>
    /\ runErr = NoErr
    /\ scope = NoContext
    /\ layers = <<>>
    /\ prev = NoRun
    /\ engine = TemplateEngine_new
    /\ calls = <<>>
    /\ tools = <<>>
    /\ conv = NoConv

NextValidate ==
    \/ Call_validate_project_name
    \/ Call_core_validation_validate_project_name
    \/ Call_validate_port
    \/ Call_validate_host
    \/ Call_core_validation_validate_port
    \/ Call_core_validation_validate_host
    \/ Call_ProjectParams_validate
    \/ Call_GoParams_validate
    \/ Call_GinParams_validate

SpecValidate == InitValidate /\ [][NextValidate]_vars

\* the characters of [A-Za-z0-9_-]
InNameCharset(c) == c \in AsciiLetters \cup AsciiDigits \cup {"-", "_"}

\* C10: validate_project_name succeeds exactly for the non-empty names made
\* only of characters in [A-Za-z0-9_-]: it fails for the empty name and for
\* every name with a space or another character outside that set.
C10_ProjectNameCharset ==
    vcall = "validate_project_name" =>
        (vres.ok <=> (vin.name # <<>> /\ \A i \in 1..Len(vin.name) : InNameCharset(vin.name[i])))

\* C11: validate_port fails for every port below 1024 and succeeds for every
\* port from 1024 to 65535, in both definitions of the function.
C11_PortRange ==
    vcall \in {"validate_port", "core_validation_validate_port"} =>
        /\ vin.port \in 0..MaxPort
        /\ vin.port < 1024 => ~vres.ok
        /\ vin.port \in 1024..MaxPort => vres.ok

\* the compiled validate_port has accepted the lowest allowed port
C11_Witness ==
    /\ vcall = "validate_port"
    /\ vin.port = 1024
    /\ vres.ok

\* a host passes the rule: not empty and at most 253 characters
HostAllowed(host) == host # "" /\ Len(host) <= MaxHostBytes

\* C12: validate_host fails for the empty host and for a host longer than 253
\* characters and succeeds otherwise, in both definitions of the function, and
\* GinParams::validate fails for every host the rule excludes.
C12_HostLength ==
    /\ vcall \in {"validate_host", "core_validation_validate_host"} =>
           (vres.ok <=> HostAllowed(vin.host))
    /\ vcall = "GinParams_validate" => (~HostAllowed(vin.host) => ~vres.ok)

-----------------------------------------------------------------------------
(* The `new` command: inputs *)

GinPath == <<"f", "r", "a", "m", "e", "w", "o", "r", "k", "s", "/", "g", "o", "/", "g", "i", "n">>
TauriPath == <<"f", "r", "a", "m", "e", "w", "o", "r", "k", "s", "/", "r", "u", "s", "t", "/", "t", "a", "u", "r", "i">>
GoPath == <<"l", "a", "n", "g", "u", "a", "g", "e", "s", "/", "g", "o">>
LicensesDir == <<"l", "i", "c", "e", "n", "s", "e", "s", "/">>
LicenseFile == <<"L", "I", "C", "E", "N", "S", "E">>
GoModFile == <<"g", "o", ".", "m", "o", "d">>
GitDir == <<".", "g", "i", "t">>
DocsDir == <<"d", "o", "c", "s">>
DocsGoFile == <<"d", "o", "c", "s", "/", "d", "o", "c", "s", ".", "g", "o">>
PackageJson == <<"p", "a", "c", "k", "a", "g", "e", ".", "j", "s", "o", "n">>
KeepFile == <<"k", "e", "e", "p", ".", "t", "x", "t">>
InferPrefix == <<"g", "i", "t", "h", "u", "b", ".", "c", "o", "m", "/", "e", "x", "a", "m", "p", "l", "e", "/">>

R_go_main == <<"l", "a", "n", "g", "u", "a", "g", "e", "s", "/", "g", "o", "/", "m", "a", "i", "n", ".", "g", "o", ".", "t", "m", "p", "l">>
R_go_bad == <<"l", "a", "n", "g", "u", "a", "g", "e", "s", "/", "g", "o", "/", "b", "a", "d", ".", "t", "m", "p", "l">>
R_mit == <<"l", "i", "c", "e", "n", "s", "e", "s", "/", "M", "I", "T", ".", "t", "m", "p", "l">>
R_gin_main == <<"f", "r", "a", "m", "e", "w", "o", "r", "k", "s", "/", "g", "o", "/", "g", "i", "n", "/", "m", "a", "i", "n", ".", "g", "o", ".", "t", "m", "p", "l">>
D_gin_config == <<"f", "r", "a", "m", "e", "w", "o", "r", "k", "s", "/", "g", "o", "/", "g", "i", "n", "/", "c", "o", "n", "f", "i", "g", ".", "j", "s", "o", "n">>
D_gin_precommit == <<"f", "r", "a", "m", "e", "w", "o", "r", "k", "s", "/", "g", "o", "/", "g", "i", "n", "/", ".", "p", "r", "e", "-", "c", "o", "m", "m", "i", "t", "-", "c", "o", "n", "f", "i", "g", ".", "y", "a", "m", "l">>

\* what the templates directory of a build may hold: a file at each framework
\* path or a Gin template below frameworks/go/gin, two Go language templates
\* and the MIT license
RunFiles ==
    GinPath   :> <<Lit("gin")>> @@
    TauriPath :> <<Lit("tauri")>> @@
    R_gin_main :> <<Lit("package main")>> @@
    R_go_main :> <<Lit("module "), Var("module_name")>> @@
    R_go_bad  :> <<Lit("x"), Open>> @@
    R_mit     :> <<Lit("MIT (c) "), Var("project_name")>>

\* a path is a file or a directory, never both
RunStores ==
    {[f \in S |-> RunFiles[f]] :
        S \in {T \in SUBSET DOMAIN RunFiles : ~(GinPath \in T /\ R_gin_main \in T)}}

\* what the working directory may hold below frameworks/go/gin
RunDisks ==
    {NoFiles,
     D_gin_config :> <<Lit("{}")>> @@ D_gin_precommit :> <<Lit("repos:")>>}

\* the directory a user already had at the project path
UserTree == KeepFile :> "user data"

LicenseNone == <<"N", "o", "n", "e">>

NameApp == <<"a", "p", "p">>
NameWithSpace == <<"m", "y", " ", "a", "p", "p">>

RunInputs ==
    {[project_name |-> n, license |-> l, host |-> hp[1], port |-> hp[2],
      framework |-> "Gin", enable_precommit |-> pre, enable_swagger |-> sw] :
        n \in {NameApp, NameWithSpace, <<>>}, l \in {LicenseMIT, LicenseNone, <<>>},
        hp \in {<<"localhost", 8080>>, <<"", 8080>>, <<"localhost", 80>>},
        pre \in BOOLEAN, sw \in BOOLEAN}
    \cup
    {[project_name |-> n, license |-> l, host |-> "0.0.0.0", port |-> 8080,
      framework |-> fw, enable_precommit |-> pre, enable_swagger |-> FALSE] :
        n \in {NameApp, NameWithSpace, <<>>}, l \in {LicenseMIT, <<>>},
        fw \in {"Tauri", "go-zero"}, pre \in BOOLEAN}

-----------------------------------------------------------------------------
(* Parameters and render contexts of a run *)

\* a character sequence as the text it spells
RECURSIVE Str(_)
Str(s) == IF s = <<>> THEN "" ELSE Head(s) \o Str(Tail(s))

NumVal(n) == [ty |-> "num", b |-> FALSE, s |-> ToString(n)]

EAcuteUpper == "U+00C9"

\* char::is_uppercase
is_uppercase(c) == (c \in DOMAIN Code /\ Code[c] \in 65..90) \/ c = EAcuteUpper

\* char::to_uppercase, first character of the result
to_uppercase(c) ==
    IF c \in DOMAIN Code /\ Code[c] \in 97..122
    THEN CHOOSE d \in DOMAIN Code : Code[d] = Code[c] - 32
    ELSE IF c = EAcute THEN EAcuteUpper ELSE c

\* char::to_lowercase, first character of the result
to_lowercase(c) ==
    IF c \in DOMAIN Code /\ Code[c] \in 65..90
    THEN CHOOSE d \in DOMAIN Code : Code[d] = Code[c] + 32
    ELSE IF c = EAcuteUpper THEN EAcute ELSE c

\* a conversion that capitalises the first character and leaves the rest
to_pascal_case_first_only(s) ==
    IF s = <<>> THEN <<>> ELSE <<to_uppercase(Head(s))>> \o Tail(s)

\* constants::string_utils::to_pascal_case
RECURSIVE PascalLoop(_, _, _)
PascalLoop(s, result, capitalize_next) ==
    IF s = <<>> THEN result
    ELSE LET ch == Head(s)
         IN  IF ch = "_" \/ ch = "-"
             THEN PascalLoop(Tail(s), result, TRUE)
             ELSE IF is_uppercase(ch) /\ result # <<>>
             THEN PascalLoop(Tail(s), Append(result, ch), FALSE)
             ELSE IF capitalize_next
             THEN PascalLoop(Tail(s), Append(result, to_uppercase(ch)), FALSE)
             ELSE PascalLoop(Tail(s), Append(result, to_lowercase(ch)), capitalize_next)

to_pascal_case(s) == PascalLoop(s, <<>>, TRUE)

\* constants::string_utils::to_snake_case
RECURSIVE SnakeLoop(_, _)
SnakeLoop(s, result) ==
    IF s = <<>> THEN result
    ELSE LET ch == Head(s)
             r1 == IF is_uppercase(ch) /\ result # <<>> THEN Append(result, "_") ELSE result
         IN  SnakeLoop(Tail(s), Append(r1, to_lowercase(ch)))

string_utils_to_snake_case(s) == SnakeLoop(s, <<>>)

\* GoParams::infer_module_name
infer_module_name(project_name) ==
    InferPrefix \o [i \in 1..Len(project_name) |->
                       IF to_lowercase(project_name[i]) = " " THEN "-"
                       ELSE to_lowercase(project_name[i])]

\* an extend that keeps the value a key already has
Extend_keep_first(base, more) == base @@ more

\* HashMap::extend and HashMap::insert: the keys of `more` replace those of `base`
Extend(base, more) == more @@ base

CurrentYear == 2026

\* ProjectParams::to_template_context; description and author are optional
ProjectParams_to_template_context(p) ==
    LET always ==
            "project_name" :> StrVal(Str(p.name)) @@
            "project_version" :> StrVal("0.1.0") @@
            "license" :> StrVal(Str(p.license)) @@
            "enable_git" :> BoolVal(p.enable_git) @@
            "project_name_pascal" :> StrVal(Str(to_pascal_case(p.name))) @@
            "project_name_snake" :> StrVal(Str(string_utils_to_snake_case(p.name))) @@
            "year" :> NumVal(CurrentYear)
        d == IF p.description # "" THEN "project_description" :> StrVal(p.description)
             ELSE [k \in {} |-> StrVal("")]
        a == IF p.author # "" THEN "author" :> StrVal(p.author)
             ELSE [k \in {} |-> StrVal("")]
    IN  Extend(Extend(always, d), a)

\* GoParams::to_template_context, the build_tags list left out
GoParams_to_template_context(p) ==
    "go_version" :> StrVal(Str(p.version)) @@
    "module_name" :> StrVal(Str(p.module_name)) @@
    "enable_modules" :> BoolVal(TRUE) @@
    "enable_cgo" :> BoolVal(FALSE) @@
    "enable_vendor" :> BoolVal(FALSE) @@
    "goos" :> StrVal("linux") @@
    "goarch" :> StrVal("x86_64")

\* the keys GinParams::to_template_context inserts itself
GinParams_own_context(p) ==
    "host" :> StrVal(p.host) @@
    "port" :> NumVal(p.port) @@
    "enable_swagger" :> BoolVal(p.enable_swagger) @@
    "enable_cors" :> BoolVal(TRUE) @@
    "enable_logging" :> BoolVal(TRUE) @@
    "enable_recovery" :> BoolVal(TRUE) @@
    "enable_rate_limit" :> BoolVal(FALSE) @@
    "enable_jwt" :> BoolVal(FALSE) @@
    "enable_database" :> BoolVal(FALSE) @@
    "enable_redis" :> BoolVal(FALSE) @@
    "enable_precommit" :> BoolVal(p.enable_precommit) @@
    "server_addr" :> StrVal(p.host \o ":" \o ToString(p.port))

\* GinParams::to_template_context: the project context, then the Go context,
\* then its own keys, each over the map built so far
GinParams_to_template_context(p) ==
    Extend(Extend(Extend(NoContext, ProjectParams_to_template_context(p)),
                  GoParams_to_template_context(p)),
           GinParams_own_context(p))

-----------------------------------------------------------------------------
(* The `new` command and the orchestrator *)

\* an existence check that finds every path
embedded_template_exists_always(st, relative_path) == TRUE

\* embedded_template_exists, which TemplateProcessor::template_exists returns
embedded_template_exists(st, relative_path) == GetFile(st, relative_path)

\* embedded_template_dir_exists: the files directly in the root never start
\* with "<path>/", so the answer is the recursive search for the directory
embedded_template_dir_exists(st, relative_path) ==
    IF relative_path = <<>> THEN TRUE
    ELSE \/ \E f \in DOMAIN st : Parent(f) = <<>> /\ StartsWith(f, relative_path \o Slash)
         \/ relative_path \in DirsOf(st)

\* a determine_project_path that accepts a path that exists
determine_project_path_no_check(exists) == Ok

\* NewCommand::determine_project_path
determine_project_path(exists) ==
    IF exists THEN Failure("Directory already exists") ELSE Ok

\* the steps of generate_gin_project with post-processing ahead of the
\* language and project steps
gin_project_steps_post_early ==
    <<"gin_generate", "gin_post_process", "go_generate", "project_generate">>

\* the calls of GeneratorOrchestrator::generate_gin_project, in program order
gin_project_steps ==
    <<"gin_generate", "go_generate", "project_generate", "gin_post_process">>

\* the statement that follows a step of generate_gin_project
StepAfter(step) ==
    LET i == CHOOSE j \in DOMAIN gin_project_steps : gin_project_steps[j] = step
    IN  IF i = Len(gin_project_steps) THEN "done" ELSE gin_project_steps[i + 1]

\* the parameter structs generate_gin_project builds from the command line
GinRunParams(c) ==
    [name |-> c.project_name, license |-> c.license,
     description |-> "A " \o Str(c.project_name) \o " project",
     author |-> "Unknown", enable_git |-> TRUE,
     module_name |-> infer_module_name(c.project_name), version |-> GoVersion,
     host |-> c.host, port |-> c.port,
     enable_swagger |-> c.enable_swagger, enable_precommit |-> c.enable_precommit]

\* the ProjectParams of the project step; the author comes from git, if at all
ProjectRunParams(c, author) ==
    [name |-> c.project_name, license |-> c.license,
     description |-> IF c.framework = "Gin"
                     THEN "A Gin web application: " \o Str(c.project_name)
                     ELSE "A Tauri desktop application: " \o Str(c.project_name),
     author |-> author, enable_git |-> TRUE,
     enable_precommit |-> c.enable_precommit]

\* return Err(..) out of the command
Fail(kind, cause) ==
    /\ pc' = "failed"
    /\ runErr' = [kind |-> kind, file |-> <<>>, cause |-> cause]

\* enter a tree processor
CallProcessor(p, path, context, flags) ==
    /\ proc' = p
    /\ tpath' = path
    /\ ctx' = context
    /\ params' = flags
    /\ files' = <<>>
    /\ idx' = 0
    /\ res' = "running"
    /\ err' = NoErr

\* NewCommand::execute up to the call of generate_project: the environment
\* check may fail, then the project path is determined
NewCommand_execute ==
    /\ pc = "start"
    /\ \E env_ok \in BOOLEAN :
           IF ~env_ok
           THEN Fail("environment", "a required tool is not available")
           ELSE IF ~determine_project_path(<<>> \in dirs).ok
           THEN Fail("exists", determine_project_path(<<>> \in dirs).msg)
           ELSE pc' = "generate_project" /\ UNCHANGED runErr
    /\ UNCHANGED <<treeVars, cli, existed, log, valVars, extVars, tools, conv>>

\* NewCommand::generate_project up to the call of the orchestrator
NewCommand_generate_project ==
    /\ pc = "generate_project"
    /\ dirs' = dirs \cup {<<>>}
    /\ CASE cli.framework = "Gin"   -> pc' = gin_project_steps[1] /\ UNCHANGED runErr
         [] cli.framework = "Tauri" -> pc' = "tauri_prepare" /\ UNCHANGED runErr
         [] OTHER                   -> Fail("unsupported", "GoZero generation is not implemented")
    /\ UNCHANGED <<store, cwd, proc, tpath, ctx, params, files, idx, out, written, res, err>>
    /\ UNCHANGED <<cli, existed, log, valVars, extVars, tools, conv>>


GinFlags(c) == [enable_precommit |-> c.enable_precommit,
                enable_swagger |-> c.enable_swagger, enable_proto_gen |-> TRUE]

\* generate_gin_project, step 1: GinGenerator::generate is the default
\* Generator::generate, which asks template_exists and then renders
Orchestrator_gin_generate ==
    /\ pc = "gin_generate"
    /\ log' = Append(log, "gin.generate")
    /\ IF ~embedded_template_exists(store, GinPath)
       THEN /\ Fail("template_missing", "Gin templates not found at: frameworks/go/gin")
            /\ UNCHANGED <<proc, tpath, ctx, params, files, idx, res, err>>
       ELSE /\ CallProcessor("gin", GinPath,
                             GinParams_to_template_context(GinRunParams(cli)), GinFlags(cli))
            /\ pc' = "gin_render"
            /\ UNCHANGED runErr
    /\ UNCHANGED <<store, cwd, out, dirs, written, cli, existed, valVars, extVars, tools, conv>>

\* the ? after gin_generator.generate(..)
Orchestrator_gin_generate_return ==
    /\ pc = "gin_render"
    /\ res \in {"ok", "err"}
    /\ IF res = "err"
       THEN Fail("generate", "Failed to generate Gin framework files") /\ UNCHANGED log
       ELSE /\ log' = Append(log, "gin.generate.ok")
            /\ pc' = StepAfter("gin_generate")
            /\ UNCHANGED runErr
    /\ UNCHANGED <<treeVars, cli, existed, valVars, extVars, tools, conv>>

\* generate_gin_project, step 2: GoGenerator::generate up to and including
\* the call of process_embedded_template_directory
GoGenerator_generate ==
    /\ pc = "go_generate"
    /\ log' = Append(log, "go.generate")
    /\ \E go_ok \in BOOLEAN :
           IF ~GoParams_validate(GinRunParams(cli)).ok
           THEN /\ Fail("validation", GoParams_validate(GinRunParams(cli)).msg)
                /\ UNCHANGED <<proc, tpath, ctx, params, files, idx, res, err>>
           ELSE IF ~go_ok
           THEN /\ Fail("tool", "Go is not installed or not in PATH")
                /\ UNCHANGED <<proc, tpath, ctx, params, files, idx, res, err>>
           ELSE IF ~embedded_template_dir_exists(store, GoPath)
           THEN /\ Fail("template_missing", "Go Language embedded templates not found at: languages/go")
                /\ UNCHANGED <<proc, tpath, ctx, params, files, idx, res, err>>
           ELSE /\ CallProcessor("embedded", GoPath,
                                 GoParams_to_template_context(GinRunParams(cli)), DefaultFlags)
                /\ pc' = "go_render"
                /\ UNCHANGED runErr
    /\ UNCHANGED <<store, cwd, out, dirs, written, cli, existed, valVars, extVars, tools, conv>>

\* a return from the language step that removes the output when the
\* templates failed
GoGenerator_generate_return_cleanup ==
    /\ pc = "go_render"
    /\ res \in {"ok", "err"}
    /\ IF res = "err"
       THEN /\ Fail("generate", "Failed to generate Go files")
            /\ out' = EmptyTree
            /\ UNCHANGED <<log, written>>
       ELSE /\ out' = WriteFile(out, GoModFile, "written by go mod init")
            /\ log' = Append(log, "go.generate.ok")
            /\ pc' = StepAfter("go_generate")
            /\ UNCHANGED <<runErr, written>>
    /\ UNCHANGED <<store, cwd, proc, tpath, ctx, params, files, idx, dirs, res, err>>
    /\ UNCHANGED <<cli, existed, valVars, extVars, tools, conv>>

\* the rest of GoGenerator::generate: init_go_module leaves a go.mod behind,
\* written by `go mod init` or, when that fails, by hand; setup_dependencies
\* only warns
GoGenerator_generate_return ==
    /\ pc = "go_render"
    /\ res \in {"ok", "err"}
    /\ IF res = "err"
       THEN /\ Fail("generate", "Failed to generate Go files")
            /\ UNCHANGED <<log, out, written>>
       ELSE \E mod_init_ok \in BOOLEAN :
            /\ IF mod_init_ok
               THEN /\ out' = WriteFile(out, GoModFile, "written by go mod init")
                    /\ UNCHANGED written
               ELSE /\ out' = WriteFile(out, GoModFile, "module <project_name> go 1.21")
                    /\ written' = Append(written, [src |-> <<>>, dst |-> GoModFile,
                                                    bytes |-> "module <project_name> go 1.21"])
            /\ log' = Append(log, "go.generate.ok")
            /\ pc' = StepAfter("go_generate")
            /\ UNCHANGED runErr
    /\ UNCHANGED <<store, cwd, proc, tpath, ctx, params, files, idx, dirs, res, err>>
    /\ UNCHANGED <<cli, existed, valVars, extVars, tools, conv>>


\* the external commands ProjectGenerator starts
GitConfigUserName == "git config --global user.name"
GitInit == "git init"
PrecommitInstall == "pre-commit install"

\* the commands generate starts once the LICENSE file is written:
\* init_git_repository when enable_git, then install_precommit, which starts
\* pre-commit only when the output holds .pre-commit-config.yaml
commands_after_license(p, output) ==
    (IF p.enable_git THEN <<GitInit>> ELSE <<>>) \o
    (IF p.enable_precommit /\ PrecommitYaml \in DOMAIN output
     THEN <<PrecommitInstall>> ELSE <<>>)

\* ProjectGenerator::generate: validate, generate_license, init_git_repository
\* and install_precommit; git and pre-commit failures only warn.  The
\* parameters carry no author, so generate_license asks git for one after it
\* has found the license template
ProjectGenerator_generate ==
    /\ pc = "project_generate"
    /\ \E git_author \in {"", "Dev"}, git_ok \in BOOLEAN :
        LET p == ProjectRunParams(cli, git_author)
            license_template == LicensesDir \o p.license \o TmplSuffix
            r == render_template_content(
                     IF GetFile(store, license_template) THEN store[license_template] ELSE <<>>,
                     ProjectParams_to_template_context(p))
        IN  IF ~ProjectParams_validate(p).ok
            THEN /\ Fail("validation", ProjectParams_validate(p).msg)
                 /\ log' = Append(log, "project.generate")
                 /\ UNCHANGED <<out, dirs, written, tools>>
            ELSE IF ~embedded_template_exists(store, license_template)
            THEN /\ Fail("license", "License template not found")
                 /\ log' = Append(log, "project.generate")
                 /\ UNCHANGED <<out, dirs, written, tools>>
            ELSE IF ~r.ok
            THEN /\ Fail("render", "Failed to generate LICENSE file")
                 /\ log' = Append(log, "project.generate")
                 /\ tools' = Append(tools, GitConfigUserName)
                 /\ UNCHANGED <<out, dirs, written>>
            ELSE /\ out' = WriteFile(out, LicenseFile, r.text)
                 /\ written' = Append(written, [src |-> license_template, dst |-> LicenseFile,
                                                 bytes |-> r.text])
                 /\ dirs' = IF p.enable_git /\ git_ok THEN dirs \cup {<<>>, GitDir}
                            ELSE dirs \cup {<<>>}
                 /\ tools' = Append(tools, GitConfigUserName) \o commands_after_license(p, out')
                 /\ log' = Append(Append(log, "project.generate"), "project.generate.ok")
                 /\ pc' = IF cli.framework = "Gin" THEN StepAfter("project_generate") ELSE "done"
                 /\ UNCHANGED runErr
    /\ UNCHANGED <<store, cwd, proc, tpath, ctx, params, files, idx, res, err>>
    /\ UNCHANGED <<cli, existed, valVars, extVars, conv>>

\* GinGenerator::post_process: without swag nothing happens; `swag init` that
\* cannot be started and a `go mod tidy` that cannot be started are errors
GinGenerator_post_process ==
    /\ pc = "gin_post_process"
    /\ \E has_swag \in BOOLEAN, swag_init \in {"no_start", "exit_fail", "exit_ok"},
          tidy_starts \in BOOLEAN :
        IF ~cli.enable_swagger \/ ~has_swag \/ swag_init = "exit_fail"
        THEN /\ log' = Append(Append(log, "gin.post_process"), "gin.post_process.ok")
             /\ pc' = StepAfter("gin_post_process")
             /\ UNCHANGED <<runErr, out, dirs>>
        ELSE IF swag_init = "no_start"
        THEN /\ Fail("tool", "Failed to execute Gin post-processing")
             /\ log' = Append(log, "gin.post_process")
             /\ UNCHANGED <<out, dirs>>
        ELSE /\ out' = WriteFile(out, DocsGoFile, "written by swag init")
             /\ dirs' = dirs \cup {DocsDir}
             /\ IF tidy_starts
                THEN /\ log' = Append(Append(log, "gin.post_process"), "gin.post_process.ok")
                     /\ pc' = StepAfter("gin_post_process")
                     /\ UNCHANGED runErr
                ELSE /\ Fail("tool", "Failed to execute Gin post-processing")
                     /\ log' = Append(log, "gin.post_process")
    /\ UNCHANGED <<store, cwd, proc, tpath, ctx, params, files, idx, written, res, err>>
    /\ UNCHANGED <<cli, existed, valVars, extVars, tools, conv>>

\* generate_tauri_project up to the first install_dependencies: the checks,
\* remove_dir_all of the output path when it exists, create-tauri-app
Orchestrator_tauri_prepare ==
    /\ pc = "tauri_prepare"
    /\ \E stops \in {"pnpm", "create_tauri_app", "create", "install", "nowhere"} :
        IF stops \in {"pnpm", "create_tauri_app"}
        THEN /\ Fail("tool", "pnpm or create-tauri-app is not available")
             /\ UNCHANGED <<out, dirs>>
        ELSE IF stops = "create"
        THEN /\ Fail("tool", "Failed to create Tauri project")
             /\ out' = IF <<>> \in dirs THEN EmptyTree ELSE out
             /\ dirs' = IF <<>> \in dirs THEN {} ELSE dirs
        ELSE /\ out' = PackageJson :> "written by create-tauri-app"
             /\ dirs' = {<<>>}
             /\ IF stops = "install"
                THEN Fail("tool", "Failed to execute pnpm install")
                ELSE pc' = "tauri_generate" /\ UNCHANGED runErr
    /\ log' = Append(log, "tauri.prepare")
    /\ UNCHANGED <<store, cwd, proc, tpath, ctx, params, files, idx, written, res, err>>
    /\ UNCHANGED <<cli, existed, valVars, extVars, tools, conv>>

\* generate_tauri_project, the call of tauri_generator.generate
Orchestrator_tauri_generate ==
    /\ pc = "tauri_generate"
    /\ log' = Append(log, "tauri.generate")
    /\ IF ~embedded_template_exists(store, TauriPath)
       THEN /\ Fail("template_missing", "Tauri templates not found at: frameworks/rust/tauri")
            /\ UNCHANGED <<proc, tpath, ctx, params, files, idx, res, err>>
       ELSE /\ CallProcessor("tauri", TauriPath,
                    Extend(ProjectParams_to_template_context(ProjectRunParams(cli, "")),
                           "enable_precommit" :> BoolVal(cli.enable_precommit)),
                    [DefaultFlags EXCEPT !.enable_precommit = cli.enable_precommit])
            /\ pc' = "tauri_render"
            /\ UNCHANGED runErr
    /\ UNCHANGED <<store, cwd, out, dirs, written, cli, existed, valVars, extVars, tools, conv>>

\* the ? after tauri_generator.generate(..) and the second install_dependencies
Orchestrator_tauri_generate_return ==
    /\ pc = "tauri_render"
    /\ res \in {"ok", "err"}
    /\ \E pnpm_starts \in BOOLEAN :
        IF res = "err"
        THEN Fail("generate", "Failed to apply Tauri templates") /\ UNCHANGED log
        ELSE IF ~pnpm_starts
        THEN Fail("tool", "Failed to execute pnpm install") /\ UNCHANGED log
        ELSE /\ log' = Append(log, "tauri.generate.ok")
             /\ pc' = "project_generate"
             /\ UNCHANGED runErr
    /\ UNCHANGED <<treeVars, cli, existed, valVars, extVars, tools, conv>>

InitRun ==
    /\ store \in RunStores
    /\ cwd \in RunDisks
    /\ cli \in RunInputs
    /\ existed \in BOOLEAN
    /\ cli.project_name = <<>> => existed
    /\ out = IF existed THEN UserTree ELSE EmptyTree
    /\ dirs = IF existed THEN {<<>>} ELSE {}
    /\ proc = "none"
    /\ tpath = <<>>
    /\ ctx = [k \in {} |-> BoolVal(FALSE)]
    /\ params = DefaultFlags
    /\ files = <<>>
    /\ idx = 0
    /\ written = <<>>
    /\ res = "idle"
    /\ err = NoErr
    /\ pc = "start"
    /\ log = <<>>
    /\ runErr = NoErr
    /\ vin = NoInput
    /\ vcall = "none"
    /\ vres = NoVerdict
    /\ scope = NoContext
    /\ layers = <<>>
    /\ prev = NoRun
    /\ engine = TemplateEngine_new
    /\ calls = <<>>
    /\ tools = <<>>
    /\ conv = NoConv

NextRun ==
    \/ NewCommand_execute
    \/ NewCommand_generate_project
    \/ Orchestrator_gin_generate
    \/ GinGenerator_render_templates
    \/ Orchestrator_gin_generate_return
    \/ GoGenerator_generate
    \/ process_embedded_template_directory
    \/ GoGenerator_generate_return
    \/ ProjectGenerator_generate
    \/ GinGenerator_post_process
    \/ Orchestrator_tauri_prepare
    \/ Orchestrator_tauri_generate
    \/ TauriGenerator_render_embedded_templates
    \/ Orchestrator_tauri_generate_return

SpecRun == InitRun /\ [][NextRun]_vars


-----------------------------------------------------------------------------
(* C7..C9: the run as a whole *)

\* the parameters of the run pass the validation of its framework
RunParamsValid ==
    IF cli.framework = "Gin"
    THEN GinParams_validate(GinRunParams(cli)).ok
    ELSE ProjectParams_validate(ProjectRunParams(cli, "")).ok

\* C7: a run that stops with a validation error has created no directory and
\* written no file, and a run whose parameters fail validation never creates
\* or writes anything.
C7_ValidationBeforeOutput ==
    /\ (pc = "failed" /\ runErr.kind = "validation" /\ ~existed) =>
           (dirs = {} /\ out = EmptyTree)
    /\ (~existed /\ ~RunParamsValid) => (dirs = {} /\ out = EmptyTree)

\* the trace of a complete Gin run
GinLog ==
    <<"gin.generate", "gin.generate.ok", "go.generate", "go.generate.ok",
      "project.generate", "project.generate.ok",
      "gin.post_process", "gin.post_process.ok">>

\* C8: in a Gin run the steps start in the order framework tree, language tree
\* with module bootstrap, project, framework post-processing; a step starts only
\* after the one before it returned success, so post-processing starts only
\* after the three generation steps are done.
C8_GinStepOrder ==
    cli.framework = "Gin" =>
        /\ Len(log) <= Len(GinLog)
        /\ log = SubSeq(GinLog, 1, Len(log))
        /\ pc = "done" => log = GinLog

\* a Gin run that went through all four steps
C8_Witness ==
    /\ cli.framework = "Gin"
    /\ pc = "done"
    /\ log = GinLog
    /\ LicenseFile \in DOMAIN out

\* C9: a run whose project path exists is rejected before the core writes:
\* it never gets past determine_project_path, and the directory that was there
\* keeps its content.
C9_ExistingTargetRejected ==
    existed =>
        /\ pc \in {"start", "failed"}
        /\ pc = "failed" => runErr.kind \in {"environment", "exists"}
        /\ out = UserTree
        /\ dirs = {<<>>}
        /\ written = <<>>
        /\ log = <<>>

\* a run rejected because its project path exists
C9_Witness ==
    /\ existed
    /\ pc = "failed"
    /\ runErr.kind = "exists"
    /\ out = UserTree

-----------------------------------------------------------------------------
(* Idle parts of the state, for the specifications that leave them alone *)

IdleProcessor ==
    /\ store = NoFiles
    /\ cwd = NoFiles
    /\ proc = "none"
    /\ tpath = <<>>
    /\ ctx = NoContext
    /\ params = DefaultFlags
    /\ files = <<>>
    /\ idx = 0
    /\ out = EmptyTree
    /\ dirs = {}
    /\ written = <<>>
    /\ res = "idle"
    /\ err = NoErr

IdleRun ==
    /\ cli = NoCli
    /\ existed = FALSE
    /\ log = <<>>
    /\ runErr = NoErr

IdleValidate ==
    /\ vin = NoInput
    /\ vcall = "none"
    /\ vres = NoVerdict

-----------------------------------------------------------------------------
(* ParameterScope and the layered render context *)

MaxLayers == 3

LayerKeys == {"project_name", "license"}

LayerValues == {StrVal("a"), StrVal("b")}

\* the maps a caller may hand to ParameterScope
LayerMaps == UNION {[K -> LayerValues] : K \in SUBSET LayerKeys}

\* ParameterScope::add
ParameterScope_add ==
    /\ pc = "context"
    /\ Len(layers) < MaxLayers
    /\ \E key \in LayerKeys, value \in LayerValues :
           /\ scope' = Extend(scope, key :> value)
           /\ layers' = Append(layers, key :> value)
    /\ UNCHANGED <<treeVars, runVars, valVars, prev, engine, calls, tools, conv>>

\* ParameterScope::add_all
ParameterScope_add_all ==
    /\ pc = "context"
    /\ Len(layers) < MaxLayers
    /\ \E m \in LayerMaps :
           /\ scope' = Extend(scope, m)
           /\ layers' = Append(layers, m)
    /\ UNCHANGED <<treeVars, runVars, valVars, prev, engine, calls, tools, conv>>

\* the parameters another ParameterScope may hold
OtherScopes == UNION {[K -> LayerValues] : K \in SUBSET {"license", "author"}}

\* ParameterScope::merge
ParameterScope_merge ==
    /\ pc = "context"
    /\ Len(layers) < MaxLayers
    /\ \E other \in OtherScopes :
           /\ scope' = Extend(scope, other)
           /\ layers' = Append(layers, other)
    /\ UNCHANGED <<treeVars, runVars, valVars, prev, engine, calls, tools, conv>>

\* the command lines of Gin runs
GinInputs == {c \in RunInputs : c.framework = "Gin"}

\* GinParams::to_template_context on the parameters of a Gin run
Call_GinParams_to_template_context ==
    /\ pc = "context"
    /\ layers = <<>>
    /\ \E c \in GinInputs :
           LET p == GinRunParams(c)
           IN  /\ scope' = GinParams_to_template_context(p)
               /\ layers' = <<ProjectParams_to_template_context(p),
                              GoParams_to_template_context(p),
                              GinParams_own_context(p)>>
    /\ UNCHANGED <<treeVars, runVars, valVars, prev, engine, calls, tools, conv>>

InitContext ==
    /\ IdleProcessor
    /\ IdleRun
    /\ IdleValidate
    /\ pc = "context"
    /\ scope = NoContext
    /\ layers = <<>>
    /\ prev = NoRun
    /\ engine = TemplateEngine_new
    /\ calls = <<>>
    /\ tools = <<>>
    /\ conv = NoConv

NextContext ==
    \/ ParameterScope_add
    \/ ParameterScope_add_all
    \/ ParameterScope_merge
    \/ Call_GinParams_to_template_context

SpecContext == InitContext /\ [][NextContext]_vars

\* the layers that define a key
Defining(k) == {i \in DOMAIN layers : k \in DOMAIN layers[i]}

\* the last layer that defines a key
LastDefining(k) == CHOOSE i \in Defining(k) : \A j \in Defining(k) : j <= i

\* C13: the merged context has exactly the keys the applied layers define, and
\* the value of each key is the one given by the last layer, in the order of
\* application, that defines the key; for the Gin context the order is project,
\* Go language, framework.
C13_LayeredMerge ==
    /\ DOMAIN scope = UNION {DOMAIN layers[i] : i \in DOMAIN layers}
    /\ \A k \in DOMAIN scope : scope[k] = layers[LastDefining(k)][k]

\* a key two layers define with different values has the later value
C13_Witness ==
    \E k \in DOMAIN scope : \E i, j \in DOMAIN layers :
        /\ i < j
        /\ k \in DOMAIN layers[i]
        /\ k \in DOMAIN layers[j]
        /\ layers[i][k] # layers[j][k]
        /\ scope[k] = layers[j][k]

-----------------------------------------------------------------------------
(* The same tree processed twice, each time into a fresh output directory *)

\* the caller processes the namespace again, with the same context, into
\* another output directory that is empty
RunAgain ==
    /\ ~prev.done
    /\ res \in {"ok", "err"}
    /\ prev' = [done |-> TRUE, res |-> res, out |-> out, dirs |-> dirs, files |-> files]
    /\ files' = <<>>
    /\ idx' = 0
    /\ out' = EmptyTree
    /\ dirs' = {}
    /\ written' = <<>>
    /\ res' = "running"
    /\ err' = NoErr
    /\ UNCHANGED <<store, cwd, proc, tpath, ctx, params>>
    /\ UNCHANGED <<runVars, valVars, scope, layers, engine, calls, tools, conv>>

NextTwice ==
    \/ Scaffold_process
    \/ process_embedded_template_directory
    \/ GinGenerator_render_templates
    \/ TauriGenerator_render_embedded_templates
    \/ RunAgain

\* the runs start as a single run does, with a context that has every key
InitTwice ==
    /\ Init
    /\ DOMAIN ctx = {"enable_precommit", "project_name", "project_name_snake"}

SpecTwice == InitTwice /\ [][NextTwice]_vars

C15_OrderIndependent ==
    \A w \in Writes : w.dst \in DOMAIN out /\ out[w.dst] = w.bytes

-----------------------------------------------------------------------------
(* C16: the existence check of a namespace *)

\* the path names a stored file, or a stored file lies below it
NamespaceBundled(st, path) ==
    \/ path \in DOMAIN st
    \/ \E f \in DOMAIN st : StartsWith(f, path \o Slash)

\* the step the orchestrator entered last
LastStep == IF log = <<>> THEN "none" ELSE log[Len(log)]

\* C16: the existence check a generator makes on its namespace answers true
\* exactly when the path names a stored file or a stored file lies below it:
\* a generation step reports its templates as not found exactly when nothing
\* is bundled at or below its namespace path.
C16_NamespaceExists ==
    /\ LastStep = "gin.generate" =>
           ((pc = "failed" /\ runErr.kind = "template_missing")
                <=> ~NamespaceBundled(store, GinPath))
    /\ LastStep = "tauri.generate" =>
           ((pc = "failed" /\ runErr.kind = "template_missing")
                <=> ~NamespaceBundled(store, TauriPath))
    /\ (LastStep = "go.generate" /\ pc = "failed" /\ runErr.kind = "template_missing")
           => ~NamespaceBundled(store, GoPath)

-----------------------------------------------------------------------------
(* C17: the listing of a namespace *)

\* lexical order of two paths compared component by component: the separator
\* sorts before every other character
ComponentLess(a, b) ==
    \E i \in 1..(Len(a) + 1) :
        /\ i <= Len(b)
        /\ SubSeq(a, 1, i - 1) = SubSeq(b, 1, i - 1)
        /\ \/ i = Len(a) + 1
           \/ (b[i] # "/" /\ (a[i] = "/" \/ Code[a[i]] < Code[b[i]]))

SortedBy(q, Less(_, _)) == \A i, j \in DOMAIN q : i < j => Less(q[i], q[j])

\* C17: the files of a namespace are listed in lexical order of their paths,
\* as strings or component by component, and the listing is the same at every
\* call.
C17_ListingLexical ==
    (proc \in {"scaffold", "embedded", "tauri"} /\ idx >= 1) =>
        /\ SortedBy(files, LexLess) \/ SortedBy(files, ComponentLess)
        /\ files = get_embedded_template_files(store, IF proc = "scaffold" THEN <<>> ELSE tpath)
        /\ prev.done => files = prev.files

-----------------------------------------------------------------------------
(* The TemplateEngine called repeatedly *)

MaxCalls == 3

\* Handlebars::render_template(&self, ..): the template is compiled for this
\* call and rendered under the settings of the registry
Handlebars_render_template(hb, c, context) ==
    IF \E i \in 1..Len(c) : c[i].t = "open"
    THEN [ok |-> FALSE, text |-> "", cause |-> "template syntax error"]
    ELSE IF hb.strict_mode /\ \E i \in 1..Len(c) : c[i].t = "var" /\ c[i].v \notin DOMAIN context
    THEN [ok |-> FALSE, text |-> "", cause |-> "variable not found in strict mode"]
    ELSE [ok |-> TRUE, text |-> RenderTokens(c, context), cause |-> ""]

\* an engine whose render leaves strict mode switched on
TemplateEngine_after_render_strict(e) == [e EXCEPT !.handlebars.strict_mode = TRUE]

\* the engine after a render: render_template borrows the registry read-only
\* and nothing is registered
TemplateEngine_after_render(e) == e

\* template texts: static text, a placeholder, an unclosed placeholder
RenderTemplates ==
    {<<Lit("a&b  ")>>, <<Lit("v="), Var("project_name")>>, <<Lit("x"), Open>>}

RenderContexts ==
    {NoContext, "project_name" :> StrVal("a"), "project_name" :> StrVal("b")}

\* the store the engine reads templates from
RenderStore == [f \in {F_main, F_config, F_bad} |-> AllFiles[f]]

\* TemplateEngine::render_template_content
TemplateEngine_render_template_content ==
    /\ pc = "render"
    /\ Len(calls) < MaxCalls
    /\ \E template_content \in RenderTemplates, context \in RenderContexts :
           calls' = Append(calls,
                      [template |-> template_content, context |-> context,
                       result |-> Handlebars_render_template(engine.handlebars,
                                                             template_content, context)])
    /\ engine' = TemplateEngine_after_render(engine)
    /\ UNCHANGED <<treeVars, runVars, valVars, scope, layers, prev, tools, conv>>

\* TemplateEngine::render_template: the embedded file is read, then rendered
TemplateEngine_render_template ==
    /\ pc = "render"
    /\ Len(calls) < MaxCalls
    /\ \E template_path \in {F_main, F_config, F_bad, F_other}, data \in RenderContexts :
           IF ~GetFile(store, template_path)
           THEN calls' = Append(calls,
                           [template |-> <<>>, context |-> data,
                            result |-> [ok |-> FALSE, text |-> "",
                                        cause |-> "Failed to read embedded template"]])
           ELSE calls' = Append(calls,
                           [template |-> store[template_path], context |-> data,
                            result |-> Handlebars_render_template(engine.handlebars,
                                                                  store[template_path], data)])
    /\ engine' = TemplateEngine_after_render(engine)
    /\ UNCHANGED <<treeVars, runVars, valVars, scope, layers, prev, tools, conv>>

InitRender ==
    /\ store = RenderStore
    /\ cwd = NoFiles
    /\ proc = "none"
    /\ tpath = <<>>
    /\ ctx = NoContext
    /\ params = DefaultFlags
    /\ files = <<>>
    /\ idx = 0
    /\ out = EmptyTree
    /\ dirs = {}
    /\ written = <<>>
    /\ res = "idle"
    /\ err = NoErr
    /\ IdleRun
    /\ IdleValidate
    /\ pc = "render"
    /\ scope = NoContext
    /\ layers = <<>>
    /\ prev = NoRun
    /\ engine = TemplateEngine_new
    /\ calls = <<>>
    /\ tools = <<>>
    /\ conv = NoConv

NextRender ==
    \/ TemplateEngine_render_template_content
    \/ TemplateEngine_render_template

SpecRender == InitRender /\ [][NextRender]_vars

\* the read of the embedded file failed before anything was rendered
ReadFailed(call) == call.template = <<>>

\* C18: the result of a render depends only on the template text and the
\* context of that call: two calls with the same text and context give the
\* same result whatever was rendered before or between them, and the helpers
\* and settings of the engine stay as construction left them.
C18_RenderStateless ==
    /\ \A i, j \in DOMAIN calls :
           (calls[i].template = calls[j].template /\ calls[i].context = calls[j].context)
               => calls[i].result = calls[j].result
    /\ \A i \in DOMAIN calls :
           ~ReadFailed(calls[i]) =>
               calls[i].result = render_template_content(calls[i].template, calls[i].context)
    /\ engine = TemplateEngine_new

\* the same text and context rendered twice with another context in between
C18_Witness ==
    \E i \in DOMAIN calls :
        /\ i + 2 \in DOMAIN calls
        /\ calls[i].template = calls[i + 2].template
        /\ calls[i].context = calls[i + 2].context
        /\ calls[i + 1].context # calls[i].context
        /\ calls[i].result.ok
        /\ calls[i].result = calls[i + 2].result

\* the text has no placeholder
IsStatic(c) == c # <<>> /\ \A k \in 1..Len(c) : c[k].t = "lit"

-----------------------------------------------------------------------------
(* License generation is a hard failure *)

\* the license template a run asks for
RequestedLicenseTemplate == LicensesDir \o cli.license \o TmplSuffix

\* C20: when the project step runs and the store holds no file
\* licenses/<license>.tmpl, whatever license name the run carries, the step
\* returns an error (the license error once the parameters are valid), writes
\* nothing to the output, so no LICENSE file, creates no .git and starts no
\* external command: neither git init nor pre-commit install is attempted.
C20_LicenseHardFailure ==
    [][(pc = "project_generate" /\ ~GetFile(store, RequestedLicenseTemplate))
        => /\ pc' = "failed"
           /\ runErr'.kind \in {"validation", "license"}
           /\ ProjectParams_validate(ProjectRunParams(cli, "")).ok => runErr'.kind = "license"
           /\ out' = out
           /\ written' = written
           /\ dirs' = dirs
           /\ tools' = tools]_vars

\* a Gin run asking for the license None, with pre-commit enabled, failed in
\* the project step after the Go step had written go.mod: no LICENSE, no .git,
\* no command started
C20_Witness ==
    /\ pc = "failed"
    /\ runErr.kind = "license"
    /\ cli.license = LicenseNone
    /\ cli.enable_precommit
    /\ ~GetFile(store, RequestedLicenseTemplate)
    /\ GoModFile \in DOMAIN out
    /\ LicenseFile \notin DOMAIN out
    /\ GitDir \notin dirs
    /\ tools = <<>>

-----------------------------------------------------------------------------
(* C21, C22: external tools in the language step and in post-processing *)

\* the language step is entered with parameters that pass GoParams::validate
\* and a store that holds the languages/go directory
GoStepCanRender ==
    /\ pc = "go_generate"
    /\ GoParams_validate(GinRunParams(cli)).ok
    /\ embedded_template_dir_exists(store, GoPath)

\* C21: in the language step a missing or failing toolchain only warns: with
\* valid parameters and the language namespace in the store, the Go generator
\* goes on to write the files of its namespace whether or not the go binary
\* answers, and does not return an error.
C21_ToolchainOnlyWarns ==
    [][GoStepCanRender => pc' = "go_render" /\ runErr' = NoErr]_vars

\* C22: post-processing returns success when the only failures are failures
\* of its external commands (swag, the go mod tidy after it), whether the
\* command exits non-zero or cannot be started: the step never ends the run
\* with an error.
C22_PostProcessToolsOnlyWarn ==
    [][pc = "gin_post_process" => pc' = StepAfter("gin_post_process") /\ runErr' = NoErr]_vars

-----------------------------------------------------------------------------
(* C23: the Python, Rust and go-zero generators, each called on its own *)

PythonPath == <<"l", "a", "n", "g", "u", "a", "g", "e", "s", "/", "p", "y", "t", "h", "o", "n">>
RustPath == <<"l", "a", "n", "g", "u", "a", "g", "e", "s", "/", "r", "u", "s", "t">>
GoZeroPath == <<"f", "r", "a", "m", "e", "w", "o", "r", "k", "s", "/", "g", "o", "/", "g", "o", "_", "z", "e", "r", "o">>

G_python_main == PythonPath \o <<"/", "m", "a", "i", "n", ".", "p", "y", ".", "t", "m", "p", "l">>
G_python_bad == PythonPath \o <<"/", "z", ".", "t", "m", "p", "l">>
G_rust_main == RustPath \o <<"/", "m", "a", "i", "n", ".", "r", "s", ".", "t", "m", "p", "l">>
G_go_zero_api == GoZeroPath \o <<"/", "a", "p", "i", ".", "t", "m", "p", "l">>

PyprojectToml == <<"p", "y", "p", "r", "o", "j", "e", "c", "t", ".", "t", "o", "m", "l">>
CargoManifest == <<"C", "a", "r", "g", "o", ".", "t", "o", "m", "l">>

\* the directories GoZeroGenerator::generate_basic_structure creates
GoZeroBasicDirs ==
    {<<"a", "p", "i">>, <<"r", "p", "c">>, <<"a", "d", "m", "i", "n">>,
     <<"c", "o", "m", "m", "o", "n">>, <<"m", "o", "d", "e", "l">>}

\* what a build may hold for these generators: templates below languages/python,
\* languages/rust and frameworks/go/go_zero, or a file at the go-zero path
GeneratorFiles ==
    G_python_main :> <<Lit("name = "), Var("package_name")>> @@
    G_python_bad  :> <<Lit("x"), Open>> @@
    G_rust_main   :> <<Lit("fn main() {}")>> @@
    G_go_zero_api :> <<Lit("type Request {}")>> @@
    GoZeroPath    :> <<Lit("go-zero")>>

GeneratorStores ==
    {[f \in S |-> GeneratorFiles[f]] :
        S \in {T \in SUBSET DOMAIN GeneratorFiles : ~(GoZeroPath \in T /\ G_go_zero_api \in T)}}

\* how the start of an external command may end
ToolOutcomes == {"no_start", "exit_fail", "exit_ok"}

\* PythonParams::extended_template_context; the orchestrator passes the
\* versions, "3.12" and "0.9.5" when the tools do not answer
PythonParams_extended_template_context(name) ==
    "python_version" :> StrVal("3.12") @@
    "package_name" :> StrVal(Str([i \in DOMAIN name |->
                          IF name[i] \in {"-", " "} THEN "_" ELSE to_lowercase(name[i])])) @@
    "uv_version" :> StrVal("0.9.5") @@
    "ruff_version" :> StrVal("0.12.1")

\* PythonGenerator::generate up to and including the template step: validate,
\* uv init, then the templates when the namespace is a directory of the store
\* and a printed warning when it is not
PythonGenerator_generate ==
    /\ pc = "python_generate"
    /\ \E params_ok \in BOOLEAN, uv_init \in ToolOutcomes :
        IF ~params_ok
        THEN /\ Fail("validation", "invalid parameters")
             /\ UNCHANGED <<proc, tpath, ctx, params, files, idx, res, err, out, dirs, log>>
        ELSE IF uv_init # "exit_ok"
        THEN /\ Fail("tool", IF uv_init = "no_start" THEN "Failed to execute uv init"
                             ELSE "uv init failed")
             /\ UNCHANGED <<proc, tpath, ctx, params, files, idx, res, err, out, dirs, log>>
        ELSE /\ out' = WriteFile(out, PyprojectToml, "written by uv init")
             /\ dirs' = dirs \cup {<<>>}
             /\ UNCHANGED runErr
             /\ IF embedded_template_dir_exists(store, PythonPath)
                THEN /\ CallProcessor("embedded", PythonPath,
                             PythonParams_extended_template_context(cli.project_name),
                             DefaultFlags)
                     /\ pc' = "python_render"
                     /\ log' = Append(log, "python.generate")
                ELSE /\ pc' = "python_dependencies"
                     /\ log' = Append(Append(log, "python.generate"),
                            "Warning: Python Language embedded templates not found at: languages/python")
                     /\ UNCHANGED <<proc, tpath, ctx, params, files, idx, res, err>>
    /\ UNCHANGED <<store, cwd, written, cli, existed, valVars, extVars, tools, conv>>

\* the rest of PythonGenerator::generate: the ? after the template step,
\* add_dependencies and install_dependencies, which fail only when uv cannot
\* be started
PythonGenerator_generate_return ==
    /\ \/ pc = "python_render" /\ res \in {"ok", "err"}
       \/ pc = "python_dependencies"
    /\ \E uv_add_starts \in BOOLEAN, uv_sync_starts \in BOOLEAN :
        IF pc = "python_render" /\ res = "err"
        THEN Fail("generate", "Failed to generate Python files") /\ UNCHANGED log
        ELSE IF ~uv_add_starts
        THEN Fail("tool", "Failed to add dependency") /\ UNCHANGED log
        ELSE IF ~uv_sync_starts
        THEN Fail("tool", "Failed to execute uv sync") /\ UNCHANGED log
        ELSE /\ pc' = "done"
             /\ log' = Append(log, "python.generate.ok")
             /\ UNCHANGED runErr
    /\ UNCHANGED <<treeVars, cli, existed, valVars, extVars, tools, conv>>

\* RustGenerator::generate up to and including the template step: validate,
\* cargo init, add_dependencies, then the templates, or an error when the
\* namespace is not a directory of the store
RustGenerator_generate ==
    /\ pc = "rust_generate"
    /\ \E params_ok \in BOOLEAN, cargo_init \in ToolOutcomes, cargo_add_starts \in BOOLEAN :
        IF ~params_ok
        THEN /\ Fail("validation", "invalid parameters")
             /\ UNCHANGED <<proc, tpath, ctx, params, files, idx, res, err, out, dirs>>
        ELSE IF cargo_init # "exit_ok"
        THEN /\ Fail("tool", IF cargo_init = "no_start" THEN "Failed to execute cargo init"
                             ELSE "cargo init failed")
             /\ UNCHANGED <<proc, tpath, ctx, params, files, idx, res, err, out, dirs>>
        ELSE /\ out' = WriteFile(out, CargoManifest, "written by cargo init")
             /\ dirs' = dirs \cup {<<>>}
             /\ IF ~cargo_add_starts
                THEN /\ Fail("tool", "Failed to add dependency")
                     /\ UNCHANGED <<proc, tpath, ctx, params, files, idx, res, err>>
                ELSE IF ~embedded_template_dir_exists(store, RustPath)
                THEN /\ Fail("template_missing",
                             "Rust Language embedded templates not found at: languages/rust")
                     /\ UNCHANGED <<proc, tpath, ctx, params, files, idx, res, err>>
                ELSE /\ CallProcessor("embedded", RustPath, NoContext, DefaultFlags)
                     /\ pc' = "rust_render"
                     /\ UNCHANGED runErr
    /\ log' = Append(log, "rust.generate")
    /\ UNCHANGED <<store, cwd, written, cli, existed, valVars, extVars, tools, conv>>

\* the rest of RustGenerator::generate: the error of the template step gets
\* its context, build_project fails only when cargo cannot be started
RustGenerator_generate_return ==
    /\ pc = "rust_render"
    /\ res \in {"ok", "err"}
    /\ \E cargo_build_starts \in BOOLEAN :
        IF res = "err"
        THEN Fail("generate", "Failed to generate Rust files") /\ UNCHANGED log
        ELSE IF ~cargo_build_starts
        THEN Fail("tool", "Failed to execute cargo build") /\ UNCHANGED log
        ELSE /\ pc' = "done"
             /\ log' = Append(log, "rust.generate.ok")
             /\ UNCHANGED runErr
    /\ UNCHANGED <<treeVars, cli, existed, valVars, extVars, tools, conv>>

\* GoZeroGenerator::generate up to and including the template step: validate,
\* then the templates when template_exists finds the path, and
\* generate_basic_structure, with its three empty service generators, when it
\* does not
GoZeroGenerator_generate ==
    /\ pc = "go_zero_generate"
    /\ \E params_ok \in BOOLEAN :
        IF ~params_ok
        THEN /\ Fail("validation", "invalid parameters")
             /\ UNCHANGED <<proc, tpath, ctx, params, files, idx, res, err, dirs, log>>
        ELSE IF embedded_template_exists(store, GoZeroPath)
        THEN /\ CallProcessor("scaffold", GoZeroPath, NoContext, DefaultFlags)
             /\ pc' = "go_zero_render"
             /\ log' = Append(log, "go_zero.generate")
             /\ UNCHANGED <<runErr, dirs>>
        ELSE /\ dirs' = dirs \cup {<<>>} \cup GoZeroBasicDirs
             /\ pc' = "done"
             /\ log' = Append(Append(log, "go_zero.generate"), "go_zero.generate.ok")
             /\ UNCHANGED <<proc, tpath, ctx, params, files, idx, res, err, runErr>>
    /\ UNCHANGED <<store, cwd, out, written, cli, existed, valVars, extVars, tools, conv>>

\* the ? after process_template_directory in GoZeroGenerator::generate
GoZeroGenerator_generate_return ==
    /\ pc = "go_zero_render"
    /\ res \in {"ok", "err"}
    /\ IF res = "err"
       THEN Fail("generate", "Failed to process Go-Zero templates") /\ UNCHANGED log
       ELSE /\ pc' = "done"
            /\ log' = Append(log, "go_zero.generate.ok")
            /\ UNCHANGED runErr
    /\ UNCHANGED <<treeVars, cli, existed, valVars, extVars, tools, conv>>

InitGenerators ==
    /\ store \in GeneratorStores
    /\ cwd = NoFiles
    /\ proc = "none"
    /\ tpath = <<>>
    /\ ctx = NoContext
    /\ params = DefaultFlags
    /\ files = <<>>
    /\ idx = 0
    /\ out = EmptyTree
    /\ dirs = {}
    /\ written = <<>>
    /\ res = "idle"
    /\ err = NoErr
    /\ pc \in {"python_generate", "rust_generate", "go_zero_generate"}
    /\ cli \in {[NoCli EXCEPT !.project_name = n] : n \in {NameApp, NameWithSpace}}
    /\ existed = FALSE
    /\ log = <<>>
    /\ runErr = NoErr
    /\ IdleValidate
    /\ scope = NoContext
    /\ layers = <<>>
    /\ prev = NoRun
    /\ engine = TemplateEngine_new
    /\ calls = <<>>
    /\ tools = <<>>
    /\ conv = NoConv

NextGenerators ==
    \/ PythonGenerator_generate
    \/ PythonGenerator_generate_return
    \/ RustGenerator_generate
    \/ RustGenerator_generate_return
    \/ GoZeroGenerator_generate
    \/ GoZeroGenerator_generate_return
    \/ process_embedded_template_directory
    \/ Scaffold_process

SpecGenerators == InitGenerators /\ [][NextGenerators]_vars

\* the generator about to run and the namespace it asks for
RequestedNamespace ==
    CASE pc = "python_generate"  -> PythonPath
      [] pc = "rust_generate"    -> RustPath
      [] pc = "go_zero_generate" -> GoZeroPath
      [] OTHER                   -> <<>>

\* C23: a generator whose namespace is absent from the template store, as a
\* file and as a directory, fails with an error; it neither continues with a
\* warning nor falls back to a basic structure.
C23_MissingNamespaceFatal ==
    [][(RequestedNamespace # <<>> /\ ~NamespaceBundled(store, RequestedNamespace))
        => pc' = "failed"]_vars

-----------------------------------------------------------------------------
(* C24: the skip predicates of the Gin namespace *)

S_swagger_yaml == NsPath \o <<"/", "d", "o", "c", "s", "/", "s", "w", "a", "g", "g", "e", "r", ".", "y", "a", "m", "l">>
S_swagger_ui == NsPath \o <<"/", "m", "y", "s", "w", "a", "g", "g", "e", "r", "u", "i", ".", "h", "t", "m", "l">>
S_docs_go == NsPath \o <<"/", "d", "o", "c", "s", "/", "d", "o", "c", "s", ".", "g", "o", ".", "t", "m", "p", "l">>
S_precommit_yaml == NsPath \o <<"/", ".", "p", "r", "e", "-", "c", "o", "m", "m", "i", "t", "-", "c", "o", "n", "f", "i", "g", ".", "y", "a", "m", "l">>

\* what frameworks/go/gin may hold: API-doc files, the pre-commit config as a
\* template and as a plain file, and files no predicate names
GinFiles ==
    S_swagger_yaml   :> <<Lit("openapi")>> @@
    S_swagger_ui     :> <<Lit("<html>")>> @@
    S_docs_go        :> <<Lit("package docs")>> @@
    S_precommit_yaml :> <<Lit("repos:")>> @@
    F_precommit      :> AllFiles[F_precommit] @@
    F_main           :> AllFiles[F_main] @@
    F_config         :> AllFiles[F_config]

GinStores ==
    {[f \in S |-> GinFiles[f]] :
        S \in {T \in SUBSET DOMAIN GinFiles : T # {} /\ Cardinality(T) <= MaxFiles}}

\* GinGenerator::render_templates entered with the context and the flags of
\* one GinParams; the template directory on disk holds the bundled files
InitGin ==
    /\ store \in GinStores
    /\ cwd = store
    /\ proc = "gin"
    /\ tpath = NsPath
    /\ params \in [enable_precommit : BOOLEAN, enable_swagger : BOOLEAN,
                   enable_proto_gen : {TRUE}]
    /\ ctx = "enable_precommit" :> BoolVal(params.enable_precommit) @@
             "enable_swagger" :> BoolVal(params.enable_swagger) @@
             "project_name" :> StrVal("My App") @@
             "project_name_snake" :> StrVal("my_app")
    /\ files = <<>>
    /\ idx = 0
    /\ out = EmptyTree
    /\ dirs = {}
    /\ written = <<>>
    /\ res = "running"
    /\ err = NoErr
    /\ pc = "tree"
    /\ IdleRun
    /\ IdleValidate
    /\ scope = NoContext
    /\ layers = <<>>
    /\ prev = NoRun
    /\ engine = TemplateEngine_new
    /\ calls = <<>>
    /\ tools = <<>>
    /\ conv = NoConv

NextGin == GinGenerator_render_templates

SpecGin == InitGin /\ [][NextGin]_vars

\* the swagger predicate: enable_swagger is false and the name contains
\* "swagger" or is that of the generated docs entrypoint, docs.go
SwaggerPredicate(name) ==
    /\ ~params.enable_swagger
    /\ Contains(name, SwaggerWord) \/ StartsWith(name, DocsGo)

\* the pre-commit predicate: enable_precommit is false and the name is that of
\* the pre-commit config file, as a template or plain
PrecommitPredicate(name) ==
    /\ ~params.enable_precommit
    /\ name \in {PrecommitYaml, PrecommitTmpl}

\* the walk has handled the file: skipped it or written its output
Handled(i) == i \in DOMAIN files /\ i < idx

WrittenFrom(f) == \E w \in Writes : w.src = f

\* C24: every file of the Gin namespace the walk has handled was skipped
\* exactly when the swagger predicate or the pre-commit predicate matches its
\* name; with both flags true none was skipped, and a file matching neither
\* predicate was written.
C24_GinSkipPredicates ==
    \A i \in DOMAIN files : Handled(i) =>
        LET name == FileName(files[i])
        IN  /\ ~WrittenFrom(files[i]) <=> (SwaggerPredicate(name) \/ PrecommitPredicate(name))
            /\ (params.enable_swagger /\ params.enable_precommit) => WrittenFrom(files[i])

\* a finished walk with swagger disabled and pre-commit enabled skipped an
\* API-doc file and wrote the pre-commit config
C24_Witness ==
    /\ proc = "gin"
    /\ res = "ok"
    /\ ~params.enable_swagger
    /\ params.enable_precommit
    /\ \E f \in {S_swagger_ui, S_docs_go} : f \in DOMAIN cwd /\ ~WrittenFrom(f)
    /\ F_precommit \in DOMAIN cwd
    /\ WrittenFrom(F_precommit)

-----------------------------------------------------------------------------
(* C25, C26, C29: the case conversions *)

MaxCaseLen == 4

CaseChars == {"a", "b", "Z", "1", "-", "_"}

HelloWorldName == <<"h", "e", "l", "l", "o", "_", "w", "o", "r", "l", "d">>
SingleName == <<"s", "i", "n", "g", "l", "e">>

\* the strings handed to a conversion
CaseInputs ==
    UNION {[1..n -> CaseChars] : n \in 0..MaxCaseLen} \cup {HelloWorldName, SingleName}

\* the concatenation of a sequence of strings
RECURSIVE Concat(_)
Concat(ws) == IF ws = <<>> THEN <<>> ELSE Head(ws) \o Concat(Tail(ws))

\* str::split on the characters of seps: the pieces between them, empty
\* pieces included
RECURSIVE SplitLoop(_, _, _, _)
SplitLoop(s, seps, word, done) ==
    IF s = <<>> THEN Append(done, word)
    ELSE IF Head(s) \in seps
    THEN SplitLoop(Tail(s), seps, <<>>, Append(done, word))
    ELSE SplitLoop(Tail(s), seps, Append(word, Head(s)), done)

Split(s, seps) == SplitLoop(s, seps, <<>>, <<>>)

\* the closure of to_camel_case: the first character upper-cased, the rest
\* lower-cased
CamelWord(word) ==
    IF word = <<>> THEN <<>>
    ELSE <<to_uppercase(Head(word))>> \o [i \in 1..(Len(word) - 1) |-> to_lowercase(word[i + 1])]

\* to_camel_case of template_engine.rs
to_camel_case(s) ==
    LET words == Split(s, {"-"})
    IN  Concat([i \in DOMAIN words |-> CamelWord(words[i])])

\* to_snake_case of template_engine.rs
to_snake_case(s) == [i \in DOMAIN s |-> to_lowercase(IF s[i] = "-" THEN "_" ELSE s[i])]

\* the ProjectParams whose context is built for a name
CaseProjectParams(name) ==
    ProjectRunParams([NoCli EXCEPT !.project_name = name, !.license = LicenseMIT,
                                   !.framework = "Gin"], "")

\* to_camel_case_helper: the helper writes to_camel_case of its parameter
Call_to_camel_case_helper ==
    /\ conv.fn = "none"
    /\ conv' = [conv EXCEPT !.fn = "to_camel_case", !.output = to_camel_case(conv.input)]
    /\ UNCHANGED <<treeVars, runVars, valVars, extVars, tools>>

\* to_snake_case_helper: the helper writes to_snake_case of its parameter
Call_to_snake_case_helper ==
    /\ conv.fn = "none"
    /\ conv' = [conv EXCEPT !.fn = "to_snake_case", !.output = to_snake_case(conv.input)]
    /\ UNCHANGED <<treeVars, runVars, valVars, extVars, tools>>

Call_to_pascal_case ==
    /\ conv.fn = "none"
    /\ conv' = [conv EXCEPT !.fn = "to_pascal_case", !.output = to_pascal_case(conv.input)]
    /\ UNCHANGED <<treeVars, runVars, valVars, extVars, tools>>

Call_string_utils_to_snake_case ==
    /\ conv.fn = "none"
    /\ conv' = [conv EXCEPT !.fn = "string_utils_to_snake_case",
                            !.output = string_utils_to_snake_case(conv.input)]
    /\ UNCHANGED <<treeVars, runVars, valVars, extVars, tools>>

Call_ProjectParams_to_template_context ==
    /\ conv.fn = "none"
    /\ conv' = [conv EXCEPT !.fn = "ProjectParams_to_template_context",
                    !.context = ProjectParams_to_template_context(CaseProjectParams(conv.input))]
    /\ UNCHANGED <<treeVars, runVars, valVars, extVars, tools>>

InitCase ==
    /\ IdleProcessor
    /\ IdleRun
    /\ IdleValidate
    /\ pc = "case"
    /\ scope = NoContext
    /\ layers = <<>>
    /\ prev = NoRun
    /\ engine = TemplateEngine_new
    /\ calls = <<>>
    /\ tools = <<>>
    /\ conv \in {[NoConv EXCEPT !.input = s] : s \in CaseInputs}

NextCase ==
    \/ Call_to_camel_case_helper
    \/ Call_to_snake_case_helper
    \/ Call_to_pascal_case
    \/ Call_string_utils_to_snake_case
    \/ Call_ProjectParams_to_template_context

SpecCase == InitCase /\ [][NextCase]_vars

LowerLetters == {c \in DOMAIN Code : Code[c] \in 97..122}

\* made of lower-case words separated by `-` or `_`
LowerDelimited(s) ==
    /\ s # <<>>
    /\ \A i \in DOMAIN s : s[i] \in LowerLetters \cup AsciiDigits \cup {"-", "_"}

\* the words of a delimited name
WordsOf(s) == Split(s, {"-", "_"})

\* a word with its first letter upper-cased
Capitalised(word) ==
    IF word = <<>> THEN <<>> ELSE <<to_uppercase(Head(word))>> \o Tail(word)

\* camelCase: the words joined, the first as it is, the later ones capitalised
CamelCaseOf(s) ==
    LET w == WordsOf(s)
    IN  Concat([i \in DOMAIN w |-> IF i = 1 THEN w[i] ELSE Capitalised(w[i])])

\* snake_case: the lower-case words joined by `_`
SnakeCaseOf(s) == [i \in DOMAIN s |-> IF s[i] = "-" THEN "_" ELSE s[i]]

\* PascalCase: every word capitalised, no separator left
PascalCaseOf(s) ==
    LET w == WordsOf(s)
    IN  Concat([i \in DOMAIN w |-> Capitalised(w[i])])

\* C25: for an input made of lower-case words separated by `-` or `_`, the
\* helper to_camel_case returns the words joined with the first word's
\* initial in lower case and the later words capitalised, and the helper
\* to_snake_case returns the words joined by `_`.
C25_HelperCases ==
    LowerDelimited(conv.input) =>
        /\ conv.fn = "to_camel_case" => conv.output = CamelCaseOf(conv.input)
        /\ conv.fn = "to_snake_case" => conv.output = SnakeCaseOf(conv.input)

\* C26: to_pascal_case maps a lower-case name delimited by `_` or `-` to its
\* words, each with the first letter upper-cased, with no separator left, and
\* ProjectParams::to_template_context puts that value under
\* project_name_pascal.
C26_PascalCase ==
    LowerDelimited(conv.input) =>
        /\ conv.fn = "to_pascal_case" => conv.output = PascalCaseOf(conv.input)
        /\ conv.fn = "ProjectParams_to_template_context" =>
               /\ "project_name_pascal" \in DOMAIN conv.context
               /\ conv.context["project_name_pascal"] = StrVal(Str(PascalCaseOf(conv.input)))

\* hello_world was converted to HelloWorld
C26_Witness ==
    /\ conv.fn = "to_pascal_case"
    /\ conv.input = HelloWorldName
    /\ conv.output = <<"H", "e", "l", "l", "o", "W", "o", "r", "l", "d">>

\* C29: for a valid project name the value under project_name_snake equals
\* what the template helper to_snake_case returns for the name, and it is
\* made of lower-case letters, digits and `_` only.
C29_SnakeAgree ==
    (conv.fn = "ProjectParams_to_template_context" /\ validate_project_name(conv.input).ok) =>
        /\ conv.context["project_name_snake"] = StrVal(Str(to_snake_case(conv.input)))
        /\ \A i \in DOMAIN string_utils_to_snake_case(conv.input) :
               string_utils_to_snake_case(conv.input)[i] \in LowerLetters \cup AsciiDigits \cup {"_"}

-----------------------------------------------------------------------------
(* C27: no rollback *)

\* the step ends the run, or the tree processor, with an error
StepFails == (pc # "failed" /\ pc' = "failed") \/ (res # "err" /\ res' = "err")

\* C27: a step that fails leaves every file that is on disk where it is, with
\* the bytes it had: nothing written earlier in the run is deleted or
\* rewritten because of the failure.
C27_NoRollback ==
    [][StepFails => \A f \in DOMAIN out : f \in DOMAIN out' /\ out'[f] = out[f]]_vars

\* post-processing failed in a Gin run and the files of the language and the
\* project step are on disk
C27_Witness ==
    /\ pc = "failed"
    /\ LastStep = "gin.post_process"
    /\ GoModFile \in DOMAIN out
    /\ LicenseFile \in DOMAIN out
    /\ \E w \in Writes : w.dst = LicenseFile /\ out[LicenseFile] = w.bytes

-----------------------------------------------------------------------------
(* C28: directories before files *)

\* the output root and every directory on the way to a relative output path
DirChain(p) == {<<>>} \cup {SubSeq(p, 1, i - 1) : i \in {j \in 1..Len(p) : p[j] = "/"}}

\* C28: every file a tree processor has written lies in directories that
\* exist, the output root included, and a processor that stopped at a
\* template it could not render had already created the directories of that
\* file's output path: they are made before the write is attempted.  Making a
\* directory that exists is no error: a walk that ended well has written every
\* file it listed, those that share a directory included.
C28_AncestorsBeforeWrite ==
    /\ \A w \in Writes : DirChain(w.dst) \subseteq dirs
    /\ (proc = "embedded" /\ res = "err" /\ err.kind = "render") =>
           DirChain(StripSuffixOr(RelOf(err.file), TmplSuffix)) \subseteq dirs
    /\ (proc = "embedded" /\ res = "ok") =>
           \A i \in DOMAIN files : WrittenFrom(files[i])

\* the embedded processor finished after writing a file in a subdirectory and
\* two files into one directory, which existed for the second
C28_Witness ==
    /\ proc = "embedded"
    /\ res = "ok"
    /\ \E w \in Writes : Parent(w.dst) # <<>> /\ Parent(w.dst) \in dirs
    /\ \E i, j \in DOMAIN written :
           i < j /\ Parent(written[i].dst) = Parent(written[j].dst)

-----------------------------------------------------------------------------
(* C30: what a listing holds *)

Listed == {files[i] : i \in DOMAIN files}

\* C30: the listing of a non-empty namespace path holds exactly the stored
\* files whose path starts with the path followed by `/`, each once: the files
\* at any depth below it are there, and no file of a sibling whose name only
\* begins with the path.
C30_ListingExact ==
    (proc \in {"embedded", "tauri"} /\ idx >= 1 /\ tpath # <<>>) =>
        /\ Listed = {f \in DOMAIN store : StartsWith(f, tpath \o Slash)}
        /\ Len(files) = Cardinality(Listed)

\* a listing of ns with a file two levels down, made while the store also
\* held a file of ns-extra
C30_Witness ==
    /\ proc = "embedded"
    /\ idx >= 1
    /\ F_sibling \in DOMAIN store
    /\ F_license \in DOMAIN store
    /\ F_license \in Listed
    /\ F_sibling \notin Listed

====
